---- MODULE Spec2Model ----
(***************************************************************************)
(* The x402 payment agent of src/src/character.ts: the WEATHER_REPORT      *)
(* action (validate + handler), the payment pipeline                       *)
(* processPaymentAndFetchWeather, the unpaid request                       *)
(* fetchWeatherWithoutPayment and the WALLET_INFO action, run by an agent  *)
(* runtime that stores every message of a room in its "messages" table.    *)
(*                                                                         *)
(* Message texts are sequences of one-character strings, so that           *)
(* toLowerCase and String.includes are computed, not assumed.              *)
(***************************************************************************)
EXTENDS Integers, Sequences, FiniteSets, TLC

\* ------------------------------------------------------------------ bounds
\* Number of user messages the runtime delivers in one run.
MaxMessages == 2

\* ------------------------------------------------------- program constants
\* character.ts:611, 643: getMemories({count: 10})
MemoryCount == 10
\* character.ts:437: parseUnits("0.001", 6)
Amount == 1000
\* character.ts:492: x402Version: 1
X402Version == 1

Rooms == {"r1"}

\* ----------------------------------------------------------------- strings
UpperCase ==
  <<"A","B","C","D","E","F","G","H","I","J","K","L","M",
    "N","O","P","Q","R","S","T","U","V","W","X","Y","Z">>
LowerCase ==
  <<"a","b","c","d","e","f","g","h","i","j","k","l","m",
    "n","o","p","q","r","s","t","u","v","w","x","y","z">>

\* String.prototype.toLowerCase, character by character.
toLowerCase(s) ==
  [i \in 1..Len(s) |->
     IF \E n \in 1..26 : UpperCase[n] = s[i]
       THEN LowerCase[CHOOSE n \in 1..26 : UpperCase[n] = s[i]]
       ELSE s[i]]

\* String.prototype.includes: k occurs in s as a contiguous substring.
includes(s, k) ==
  \E i \in 0..(Len(s) - Len(k)) : \A j \in 1..Len(k) : s[i + j] = k[j]

\* Number.prototype.toString / BigInt.prototype.toString in base 10
\* (character.ts:500-502, and the `${response.status}` of line 544).
Digits == <<"0","1","2","3","4","5","6","7","8","9">>

RECURSIVE toString(_)
toString(n) ==
  IF n < 10 THEN <<Digits[n + 1]>>
  ELSE toString(n \div 10) \o <<Digits[(n % 10) + 1]>>

\* Array.prototype.some over a keyword list.
someKeyword(keywords, s) ==
  \E n \in 1..Len(keywords) : includes(s, keywords[n])

\* ------------------------------------------------------------ keyword lists
\* validate, character.ts:570-577
weatherKeywords ==
  <<
    <<"w","e","a","t","h","e","r">>,
    <<"t","e","m","p","e","r","a","t","u","r","e">>,
    <<"f","o","r","e","c","a","s","t">>,
    <<"c","l","i","m","a","t","e">>,
    <<"w","e","a","t","h","e","r"," ","r","e","p","o","r","t">>,
    <<"w","e","a","t","h","e","r"," ","f","o","r","e","c","a","s","t">>
  >>

\* validate, character.ts:583-592; the handler repeats the list at 690-699
approvalKeywords ==
  <<
    <<"y","e","s">>,
    <<"a","p","p","r","o","v","e">>,
    <<"o","k">>,
    <<"o","k","a","y">>,
    <<"p","r","o","c","e","e","d">>,
    <<"g","o"," ","a","h","e","a","d">>,
    <<"s","u","r","e">>,
    <<"f","i","n","e">>
  >>

\* validate, character.ts:593-602; the handler repeats the list at 704-713
rejectionKeywords ==
  <<
    <<"n","o">>,
    <<"d","e","n","y">>,
    <<"r","e","j","e","c","t">>,
    <<"c","a","n","c","e","l">>,
    <<"s","t","o","p">>,
    <<"a","b","o","r","t">>,
    <<"d","e","c","l","i","n","e">>,
    <<"r","e","f","u","s","e">>
  >>

\* character.ts:623-625 and 655-657: texts the lookback takes as a payment trace
paymentKeywords ==
  <<
    <<"0",".","0","0","1">>,
    <<"u","s","d","c">>,
    <<"p","a","y","m","e","n","t">>
  >>

\* walletInfoAction.validate, character.ts:1090-1100
walletKeywords ==
  <<
    <<"w","a","l","l","e","t">>,
    <<"a","d","d","r","e","s","s">>,
    <<"b","a","l","a","n","c","e">>,
    <<"a","c","c","o","u","n","t">>,
    <<"m","y"," ","w","a","l","l","e","t">>,
    <<"w","a","l","l","e","t"," ","a","d","d","r","e","s","s">>,
    <<"s","h","o","w"," ","m","e"," ","m","y"," ","w","a","l","l","e","t">>,
    <<"g","i","v","e"," ","m","e"," ","m","y"," ","w","a","l","l","e","t">>,
    <<"w","h","a","t"," ","i","s"," ","m","y"," ","w","a","l","l","e","t">>
  >>

\* ------------------------------------------------- texts the user may send
\* Weather request (examples, character.ts:1063).
textWeather ==
  <<"W","h","a","t","'","s"," ","t","h","e"," ","w","e","a","t","h","e","r",
    " ","l","i","k","e","?">>

\* Approval (examples, character.ts:1022).
textYes ==
  <<"Y","e","s">>

\* Rejection (examples, character.ts:1049).
textNo ==
  <<"N","o">>

\* Carries an approval keyword ("yes") and a rejection keyword ("no").
textYesNo ==
  <<"Y","e","s",","," ","n","o"," ","p","r","o","b","l","e","m">>

\* A weather request that carries the approval keyword "fine".
textWeatherFine ==
  <<"I","s"," ","t","h","e"," ","w","e","a","t","h","e","r"," ","f","i","n",
    "e","?">>

\* A weather request that carries the rejection keyword "no" (in "now").
textWeatherNow ==
  <<"W","e","a","t","h","e","r"," ","n","o","w","?">>

\* A wallet request that names the asset (cf. examples, character.ts:1253).
textBalance ==
  <<"W","h","a","t"," ","i","s"," ","m","y"," ","U","S","D","C"," ","b","a",
    "l","a","n","c","e","?">>

\* A message no action of the plugin accepts.
textHello ==
  <<"H","e","l","l","o"," ","t","h","e","r","e">>

\* ------------------------------------------------ texts the agent answers
\* handler, character.ts:960
paymentPrompt ==
  <<"T","o"," ","a","c","c","e","s","s"," ","w","e","a","t","h","e","r"," ",
    "r","e","p","o","r","t","s",","," ","y","o","u"," ","n","e","e","d"," ",
    "t","o"," ","a","d","d"," ","a"," ","p","a","y","m","e","n","t"," ","o",
    "f"," ","0",".","0","0","1"," ","U","S","D","C","."," ","D","o"," ","y",
    "o","u"," ","a","p","p","r","o","v","e"," ","t","h","i","s","?">>

\* handler, character.ts:921-929: the report ends with this line on both
\* branches; the lines before it are the server's data.
paidText ==
  <<"W","e","a","t","h","e","r"," ","R","e","p","o","r","t",":","\n","P",
    "a","y","m","e","n","t"," ","p","r","o","c","e","s","s","e","d"," ","s",
    "u","c","c","e","s","s","f","u","l","l","y","!">>

\* handler, character.ts:784 and 787
unpaidText ==
  <<"X","-","P","A","Y","M","E","N","T"," ","h","e","a","d","e","r"," ","n",
    "o","t"," ","f","o","u","n","d"," ","i","n"," ","t","h","e"," ","r","e",
    "q","u","e","s","t",","," ","p","l","e","a","s","e"," ","a","t","t","a",
    "c","h"," ","t","h","e"," ","p","a","y","m","e","n","t"," ","h","e","a",
    "d","e","r"," ","t","o"," ","t","h","e"," ","r","e","q","u","e","s","t",
    " ","a","n","d"," ","t","r","y"," ","a","g","a","i","n",".">>

\* handler, character.ts:835-836
missingKeyText ==
  <<"P","a","y","m","e","n","t"," ","p","r","o","c","e","s","s","i","n","g",
    " ","f","a","i","l","e","d",":"," ","P","R","I","V","A","T","E","_","K",
    "E","Y"," ","n","o","t"," ","c","o","n","f","i","g","u","r","e","d",".",
    " ","P","l","e","a","s","e"," ","s","e","t"," ","P","R","I","V","A","T",
    "E","_","K","E","Y"," ","i","n"," ","y","o","u","r"," ","e","n","v","i",
    "r","o","n","m","e","n","t"," ","v","a","r","i","a","b","l","e","s",".">>

\* handler, character.ts:870 (prefix of the message, the error follows)
paymentFailedText ==
  <<"P","a","y","m","e","n","t"," ","p","r","o","c","e","s","s","i","n","g",
    " ","f","a","i","l","e","d",":"," ">>

\* handler, character.ts:728 (prefix of the message, the error follows)
fetchFailedText ==
  <<"F","a","i","l","e","d"," ","t","o"," ","f","e","t","c","h"," ","w","e",
    "a","t","h","e","r"," ","d","a","t","a",":"," ">>

\* walletInfoAction.handler, character.ts:1180-1191 (labels; the USDC line is
\* the one the lookback of validate can match)
walletText ==
  <<"W","a","l","l","e","t"," ","I","n","f","o","r","m","a","t","i","o","n",
    ":","\n","A","d","d","r","e","s","s",":"," ","\n","B","a","l","a","n",
    "c","e","s",":","\n","N","a","t","i","v","e"," ","T","o","k","e","n",
    " ","(","E","T","H",")",":"," ","\n","U","S","D","C",":"," ">>

\* walletInfoAction.handler, character.ts:1120-1121
walletMissingKeyText ==
  <<"W","a","l","l","e","t"," ","i","n","f","o","r","m","a","t","i","o","n",
    " ","u","n","a","v","a","i","l","a","b","l","e",":"," ","P","R","I","V",
    "A","T","E","_","K","E","Y"," ","n","o","t"," ","c","o","n","f","i","g",
    "u","r","e","d","."," ","P","l","e","a","s","e"," ","s","e","t"," ","P",
    "R","I","V","A","T","E","_","K","E","Y"," ","i","n"," ","y","o","u","r",
    " ","e","n","v","i","r","o","n","m","e","n","t"," ","v","a","r","i","a",
    "b","l","e","s",".">>

\* walletInfoAction.handler, character.ts:1148
walletFailedText ==
  <<"F","a","i","l","e","d"," ","t","o"," ","r","e","t","r","i","e","v","e",
    " ","w","a","l","l","e","t"," ","i","n","f","o","r","m","a","t","i","o",
    "n","."," ","P","l","e","a","s","e"," ","c","h","e","c","k"," ","y","o",
    "u","r"," ","n","e","t","w","o","r","k"," ","c","o","n","n","e","c","t",
    "i","o","n",".">>

\* ------------------------------------------------------------ error strings
\* processPaymentAndFetchWeather, character.ts:484
errSignature ==
  <<"S","i","g","n","a","t","u","r","e"," ","v","e","r","i","f","i","c","a",
    "t","i","o","n"," ","f","a","i","l","e","d">>

\* A server's invalidReason (spec.md, Scenario E).
errInsufficient ==
  <<"i","n","s","u","f","f","i","c","i","e","n","t","_","f","u","n","d","s">>

\* A server's error field.
errRequired ==
  <<"X","-","P","A","Y","M","E","N","T"," ","h","e","a","d","e","r"," ","i",
    "s"," ","r","e","q","u","i","r","e","d">>

\* The message of the TypeError fetch throws when the connection fails.
errFetch ==
  <<"f","e","t","c","h"," ","f","a","i","l","e","d">>

\* The message of the SyntaxError response.json() throws on a body that is
\* not JSON (character.ts:525, 551).
errJson ==
  <<"U","n","e","x","p","e","c","t","e","d"," ","t","o","k","e","n"," ","<"," ","i","n"," ","J","S","O","N"," ","a","t"," ","p","o","s","i","t","i","o","n"," ","0">>

\* The message of an Error thrown by privateKeyToAccount, signTypedData or
\* verifyTypedData (character.ts:547-552).
errThrown ==
  <<"i","n","v","a","l","i","d"," ","p","r","i","v","a","t","e"," ","k","e","y">>

\* processPaymentAndFetchWeather, character.ts:544: `HTTP ${response.status}`
errHttp(status) ==
  <<"H","T","T","P"," ">> \o toString(status)

\* The status codes the weather server and the gateways before it answer with.
Statuses == {200, 402, 500, 502}

\* The name under which `HTTP ${status}` is kept in a result.
HttpErrorId ==
  [status \in Statuses |->
     CASE status = 200 -> "errHttp200"
       [] status = 402 -> "errHttp402"
       [] status = 500 -> "errHttp500"
       [] status = 502 -> "errHttp502"]

\* --------------------------------------------------------------- the tables
UserTexts ==
  {"textWeather", "textYes", "textNo", "textYesNo",
   "textWeatherFine", "textWeatherNow", "textBalance", "textHello"}

AgentTexts ==
  {"paymentPrompt", "paidText", "unpaidText", "missingKeyText",
   "paymentFailedText", "fetchFailedText", "walletText",
   "walletMissingKeyText", "walletFailedText"}

ErrorIds ==
  {"", "errSignature", "errInsufficient", "errRequired", "errFetch", "errJson",
   "errThrown"}
    \cup {HttpErrorId[status] : status \in Statuses}

\* The characters of a text, by its name.
TextOf(id) ==
  CASE id = "textWeather" -> textWeather
    [] id = "textYes" -> textYes
    [] id = "textNo" -> textNo
    [] id = "textYesNo" -> textYesNo
    [] id = "textWeatherFine" -> textWeatherFine
    [] id = "textWeatherNow" -> textWeatherNow
    [] id = "textBalance" -> textBalance
    [] id = "textHello" -> textHello
    [] id = "paymentPrompt" -> paymentPrompt
    [] id = "paidText" -> paidText
    [] id = "unpaidText" -> unpaidText
    [] id = "missingKeyText" -> missingKeyText
    [] id = "paymentFailedText" -> paymentFailedText
    [] id = "fetchFailedText" -> fetchFailedText
    [] id = "walletText" -> walletText
    [] id = "walletMissingKeyText" -> walletMissingKeyText
    [] id = "walletFailedText" -> walletFailedText
    [] id = "errSignature" -> errSignature
    [] id = "errInsufficient" -> errInsufficient
    [] id = "errRequired" -> errRequired
    [] id = "errFetch" -> errFetch
    [] id = "errJson" -> errJson
    [] id = "errThrown" -> errThrown
    [] \E status \in Statuses : id = HttpErrorId[status] ->
         errHttp(CHOOSE status \in Statuses : id = HttpErrorId[status])
    [] id = "" -> <<>>

\* message.content?.text?.toLowerCase() || "" (character.ts:567, 617, 689),
\* computed once per text.  An answer's text is its fixed part followed by the
\* error string it carries (`${...}` at character.ts:728, 870).
messageText ==
  [id \in UserTexts \cup AgentTexts |->
     [e \in ErrorIds |-> toLowerCase(TextOf(id) \o TextOf(e))]]

\* character.ts:578-580
isWeatherRequestText ==
  [id \in UserTexts |-> someKeyword(weatherKeywords, messageText[id][""])]

\* Faulty variant: every text counts as a weather request.
isWeatherRequest_Always(id) == TRUE

isWeatherRequest(id) == isWeatherRequestText[id]

\* character.ts:603 and 700-702
isApprovalText ==
  [id \in UserTexts |-> someKeyword(approvalKeywords, messageText[id][""])]

isApproval(id) == isApprovalText[id]

\* character.ts:604 and 714
isRejectionText ==
  [id \in UserTexts |-> someKeyword(rejectionKeywords, messageText[id][""])]

isRejection(id) == isRejectionText[id]

\* walletInfoAction.validate, character.ts:1086-1103
walletValidate(id) == someKeyword(walletKeywords, messageText[id][""])

\* character.ts:621-626: the text of a stored message reads like a payment
memTextIsPayment ==
  [id \in UserTexts \cup AgentTexts |->
     [e \in ErrorIds |-> someKeyword(paymentKeywords, messageText[id][e])]]

\* ------------------------------------------------------------ configuration
\* character.ts:277-278
USDC_ADDRESS == "0x036CbD53842c5426634e7929541eC2318f3dCF7e"
PAYEE_ADDRESS == "0x903918bB1903714E0518Ea2122aCeBfa27f11b6F"

\* character.ts:281-286 (baseSepolia.id is 84532)
EIP3009_DOMAIN ==
  [name |-> "USDC", version |-> "2", chainId |-> 84532,
   verifyingContract |-> USDC_ADDRESS]

\* The values runtime.getSetting("PRIVATE_KEY") may hold: unset or a key.
PrivateKeys == {"", "0xKEY"}

\* The keys privateKeyToAccount accepts, and one it throws on (a string that
\* is not the hex form of a 32-byte key).
ValidKeys == {"0xKEY", "0xKEY2"}
AllKeys == PrivateKeys \cup ValidKeys \cup {"0xBAD"}

\* The address derived from a key.
AddressOf(key) ==
  CASE key = "0xKEY" -> "0xPAYER"
    [] key = "0xKEY2" -> "0xPAYER2"
    [] OTHER -> ""

\* privateKeyToAccount(privateKey) (character.ts:426): the account signs with
\* the key and shows its address.
privateKeyToAccount(key) == [address |-> AddressOf(key), key |-> key]

\* Date.now() in milliseconds (character.ts:439, 440): the last millisecond
\* of one second and the first of the next.
FirstReading == 1700000999
ClockReadings == {FirstReading, FirstReading + 1}

\* character.ts:439: BigInt(Math.floor(Date.now() / 1000) - 600)
validAfter(now) == (now \div 1000) - 600

\* character.ts:440: BigInt(Math.floor(Date.now() / 1000) + 3600)
validBefore(now) == (now \div 1000) + 3600

\* createNonce (character.ts:300-310) draws 32 random bytes; the model draws
\* one of two values, so that two draws may differ and may collide.
Nonces == {"nonce1", "nonce2"}

\* -------------------------------------------------------------------- state
VARIABLES
  privateKey,   \* runtime.getSetting("PRIVATE_KEY")
  messages,     \* the runtime's "messages" table, per room, oldest first
  inv,          \* one record per delivered user message: its validate/handler run
  http          \* the HTTP requests each invocation has issued, in order

vars == <<privateKey, messages, inv, http>>

\* A stored message (Memory): who wrote it, its text and its action labels.
Memory(sender, text, detail, actions) ==
  [sender |-> sender, text |-> text, detail |-> detail, actions |-> actions]

NoMessage ==
  [from |-> "", to |-> "", value |-> 0, validAfter |-> 0, validBefore |-> 0,
   nonce |-> ""]
NoSignature == [signer |-> "", domain |-> <<>>, message |-> NoMessage]
NoPaymentResult == [success |-> FALSE, status |-> 0, error |-> "", data |-> ""]
NoResult == [success |-> FALSE, values |-> ""]

\* The run of validate and handler for the user message stored at
\* messages[room][at]; `lookbacks` counts the calls of getMemories.
NewInvocation(room, at, text) ==
  [room |-> room, at |-> at, text |-> text, pc |-> "validate",
   threw |-> FALSE, valid |-> FALSE, keyRead |-> FALSE,
   message |-> NoMessage, signature |-> NoSignature, verified |-> FALSE,
   paymentResult |-> NoPaymentResult, result |-> NoResult, callbacks |-> 0,
   answer |-> 0, lookbacks |-> 0]

\* The "messages" table is persistent: when the agent starts, a room is empty
\* or holds an earlier exchange, here a weather request and the payment
\* prompt the handler answered it with (character.ts:956-968).
InitialHistories ==
  { <<>>,
    << Memory("user", "textWeather", "", {}),
       Memory("agent", "paymentPrompt", "", {"WEATHER_REPORT"}) >> }

Init ==
  /\ privateKey \in PrivateKeys
  /\ messages \in [Rooms -> InitialHistories]
  /\ inv = <<>>
  /\ http = <<>>

\* ------------------------------------------------------------------ helpers
\* Faulty variant: the lookback is not restricted to the room of the message,
\* it reads the last messages of the whole table.
getMemories_AnyRoom(room, count) ==
  LET all == messages["r1"] \o messages["r2"]
  IN  IF Len(all) <= count THEN all
      ELSE SubSeq(all, Len(all) - count + 1, Len(all))

\* runtime.getMemories({roomId, count, tableName: "messages"}) at
\* character.ts:609-613: the last `count` messages of the room.
getMemories(room, count) ==
  LET all == messages[room]
  IN  IF Len(all) <= count THEN all
      ELSE SubSeq(all, Len(all) - count + 1, Len(all))

\* character.ts:616-630: some message of the snapshot carries the
\* WEATHER_REPORT label or a payment text.
hasPaymentPrompt(recentMemories) ==
  \E n \in 1..Len(recentMemories) :
    LET mem == recentMemories[n]
        hasWeatherAction == "WEATHER_REPORT" \in mem.actions
    IN  hasWeatherAction \/ memTextIsPayment[mem.text][mem.detail]

\* Faulty variant: the catch block does what its comment says ("still allow if message
\* contains approval keywords").
approvalFallback_Allow == TRUE

\* What validate returns when getMemories throws on the approval branch
\* (character.ts:633-637).
approvalFallback == FALSE

\* Faulty variant: the rejection branch returns the result of its lookback, as the
\* approval branch does.
validate_RejectionChecked(text, threw, recentMemories) ==
  IF isApproval(text)
    THEN IF threw THEN approvalFallback ELSE hasPaymentPrompt(recentMemories)
    ELSE IF isRejection(text)
      THEN IF threw THEN FALSE ELSE hasPaymentPrompt(recentMemories)
      ELSE isWeatherRequest(text) \/ isApproval(text) \/ isRejection(text)

\* weatherReportAction.validate (character.ts:562-676).  `threw` is whether
\* getMemories threw, recentMemories what it returned otherwise.
validate(text, threw, recentMemories) ==
  IF isApproval(text)
    THEN IF threw THEN approvalFallback ELSE hasPaymentPrompt(recentMemories)
    ELSE IF isRejection(text)
      THEN TRUE
      ELSE isWeatherRequest(text) \/ isApproval(text) \/ isRejection(text)

\* Faulty variant: the handler does not test for the approval and pays for every
\* message that is not a rejection.
handlerBranch_NoApprovalTest(text) ==
  IF isRejection(text) THEN "rejection" ELSE "approval"

\* The branch the handler takes (character.ts:715, 822, 956): the rejection
\* test comes first, then the approval test, else the prompt.
handlerBranch(text) ==
  IF isRejection(text) THEN "rejection"
  ELSE IF isApproval(text) THEN "approval"
  ELSE "prompt"

\* Faulty variant: the signature is made for another chain than the domain
\* names.
signTypedData_OtherChain(account, domain, message) ==
  [signer |-> account.address, domain |-> [domain EXCEPT !.chainId = 8453],
   message |-> message]

\* walletClient.signTypedData (character.ts:461-466).
signTypedData(account, domain, message) ==
  [signer |-> account.address, domain |-> domain, message |-> message]

\* A signature damaged between signing and verification: it recovers to
\* another signer.
Corrupted(signature) == [signature EXCEPT !.signer = "0xOTHER"]

\* Faulty variant: the first log record shows the key the account was made
\* from.
pipelineLog_Key(account, message, signature) ==
  [address |-> account.key, amount |-> toString(message.value),
   nonce |-> message.nonce, validAfter |-> toString(message.validAfter),
   validBefore |-> toString(message.validBefore),
   signature |-> signature.signer]

\* What the pipeline writes to the log before the request: the address
\* (character.ts:427), the payment details (442-447) and the head of the
\* signature (468).
pipelineLog(account, message, signature) ==
  [address |-> account.address, amount |-> toString(message.value),
   nonce |-> message.nonce, validAfter |-> toString(message.validAfter),
   validBefore |-> toString(message.validBefore),
   signature |-> signature.signer]

\* Faulty variant: the verification recomputes the digest with another
\* version of the domain than the signing used.
verifyTypedData_OtherVersion(address, domain, message, signature) ==
  /\ signature.signer = address
  /\ signature.domain = [domain EXCEPT !.version = "1"]
  /\ signature.message = message

\* verifyTypedData (character.ts:471-478): the signer recovered from the
\* signature over (domain, message) is `address`.
verifyTypedData(address, domain, message, signature) ==
  /\ signature.signer = address
  /\ signature.domain = domain
  /\ signature.message = message

\* Faulty variant: the result of the local verification is ignored.
maySend_Unchecked(isValidSignature) == TRUE

\* character.ts:480: the pipeline goes on to the request only when the local
\* verification returned true.
maySend(isValidSignature) == isValidSignature

\* Faulty variant: the window of the payload is computed anew when the
\* payload is built, one second after the signed one.
paymentPayload_FreshWindow(account, message, signature) ==
  [x402Version |-> X402Version, scheme |-> "exact", network |-> "base-sepolia",
   payload |->
     [signature |-> signature,
      authorization |->
        [from |-> account.address, to |-> PAYEE_ADDRESS,
         value |-> toString(message.value),
         validAfter |-> toString(message.validAfter + 1),
         validBefore |-> toString(message.validBefore + 1),
         nonce |-> message.nonce]]]

\* character.ts:491-506: amount, validAfter and validBefore are the variables
\* the signed message was built from, written with toString().
paymentPayload(account, message, signature) ==
  [x402Version |-> X402Version, scheme |-> "exact", network |-> "base-sepolia",
   payload |->
     [signature |-> signature,
      authorization |->
        [from |-> account.address, to |-> PAYEE_ADDRESS,
         value |-> toString(message.value),
         validAfter |-> toString(message.validAfter),
         validBefore |-> toString(message.validBefore),
         nonce |-> message.nonce]]]

\* ----------------------------------------------------------------- encoding
\* The characters of the strings that appear in a payment payload.
CharsOf(str) ==
  CASE str = "exact" ->
        << "e", "x", "a", "c", "t">>
    [] str = "base-sepolia" ->
        << "b", "a", "s", "e", "-", "s", "e", "p", "o", "l", "i", "a">>
    [] str = "0xPAYER" ->
        << "0", "x", "P", "A", "Y", "E", "R">>
    [] str = "0xPAYER2" ->
        << "0", "x", "P", "A", "Y", "E", "R", "2">>
    [] str = "0xOTHER" ->
        << "0", "x", "O", "T", "H", "E", "R">>
    [] str = "nonce1" ->
        << "n", "o", "n", "c", "e", "1">>
    [] str = "nonce2" ->
        << "n", "o", "n", "c", "e", "2">>
    [] str = "0x903918bB1903714E0518Ea2122aCeBfa27f11b6F" ->
        << "0", "x", "9", "0", "3", "9", "1", "8", "b", "B", "1", "9", "0",
          "3", "7", "1", "4", "E", "0", "5", "1", "8", "E", "a", "2", "1",
          "2", "2", "a", "C", "e", "B", "f", "a", "2", "7", "f", "1", "1",
          "b", "6", "F">>
    [] str = "0x036CbD53842c5426634e7929541eC2318f3dCF7e" ->
        << "0", "x", "0", "3", "6", "C", "b", "D", "5", "3", "8", "4", "2",
          "c", "5", "4", "2", "6", "6", "3", "4", "e", "7", "9", "2", "9",
          "5", "4", "1", "e", "C", "2", "3", "1", "8", "f", "3", "d", "C",
          "F", "7", "e">>
    [] str = "USDC" ->
        << "U", "S", "D", "C">>
    [] str = "2" ->
        << "2">>
    [] str = "1" ->
        << "1">>
    [] OTHER -> <<>>

\* The text of a signature: "0x" and hexadecimal digits in the code, here
\* "0x" and the characters of what the signature was made of (signer, chain,
\* version and message).
signatureHex(signature) ==
  <<"0", "x">> \o CharsOf(signature.signer)
    \o (IF signature.domain = <<>> THEN <<>>
        ELSE toString(signature.domain.chainId)
               \o CharsOf(signature.domain.version))
    \o toString(signature.message.value)
    \o toString(signature.message.validAfter)
    \o toString(signature.message.validBefore)
    \o CharsOf(signature.message.nonce)

\* A JSON value: a string, a number, or an object with its members in the
\* order they were written.
JsonString(chars) == [t |-> "string", v |-> chars]
JsonNumber(n) == [t |-> "number", v |-> n]
JsonObject(members) == [t |-> "object", v |-> members]

\* The object literal of character.ts:491-506 as a JSON value.
jsonOf(payload) ==
  JsonObject(<<
    << <<"x","4","0","2","V","e","r","s","i","o","n">>,
       JsonNumber(payload.x402Version) >>,
    << <<"s","c","h","e","m","e">>, JsonString(CharsOf(payload.scheme)) >>,
    << <<"n","e","t","w","o","r","k">>,
       JsonString(CharsOf(payload.network)) >>,
    << <<"p","a","y","l","o","a","d">>,
       JsonObject(<<
         << <<"s","i","g","n","a","t","u","r","e">>,
            JsonString(signatureHex(payload.payload.signature)) >>,
         << <<"a","u","t","h","o","r","i","z","a","t","i","o","n">>,
            JsonObject(<<
              << <<"f","r","o","m">>,
                 JsonString(CharsOf(payload.payload.authorization.from)) >>,
              << <<"t","o">>,
                 JsonString(CharsOf(payload.payload.authorization.to)) >>,
              << <<"v","a","l","u","e">>,
                 JsonString(payload.payload.authorization.value) >>,
              << <<"v","a","l","i","d","A","f","t","e","r">>,
                 JsonString(payload.payload.authorization.validAfter) >>,
              << <<"v","a","l","i","d","B","e","f","o","r","e">>,
                 JsonString(payload.payload.authorization.validBefore) >>,
              << <<"n","o","n","c","e">>,
                 JsonString(CharsOf(payload.payload.authorization.nonce)) >>
            >>) >>
       >>) >>
  >>)

\* JSON.stringify of a string: in quotes, with the quote and the backslash
\* escaped.
RECURSIVE quoteChars(_)
quoteChars(chars) ==
  IF chars = <<>> THEN <<>>
  ELSE (IF Head(chars) \in {"\"", "\\"} THEN <<"\\", Head(chars)>>
        ELSE <<Head(chars)>>) \o quoteChars(Tail(chars))

\* JSON.stringify (character.ts:509): no white space, members in insertion
\* order.
RECURSIVE stringify(_)
RECURSIVE stringifyMembers(_)
stringifyMembers(members) ==
  IF members = <<>> THEN <<>>
  ELSE <<"\"">> \o quoteChars(Head(members)[1]) \o <<"\"", ":">>
         \o stringify(Head(members)[2])
         \o (IF Tail(members) = <<>> THEN <<>> ELSE <<",">>)
         \o stringifyMembers(Tail(members))

stringify(value) ==
  CASE value.t = "string" -> <<"\"">> \o quoteChars(value.v) \o <<"\"">>
    [] value.t = "number" -> toString(value.v)
    [] value.t = "object" -> <<"{">> \o stringifyMembers(value.v) \o <<"}">>

\* The printable ASCII characters, codes 32 to 126, and the code of each
\* (the grave accent, code 96, by its name).
AsciiChars ==
  << " ", "!", "\"", "#", "$", "%", "&", "'", "(", ")", "*", "+", ",", "-",
    ".", "/", "0", "1", "2", "3", "4", "5", "6", "7", "8", "9", ":", ";",
    "<", "=", ">", "?", "@", "A", "B", "C", "D", "E", "F", "G", "H", "I",
    "J", "K", "L", "M", "N", "O", "P", "Q", "R", "S", "T", "U", "V", "W",
    "X", "Y", "Z", "[", "\\", "]", "^", "_", "grave", "a", "b", "c", "d", "e",
    "f", "g", "h", "i", "j", "k", "l", "m", "n", "o", "p", "q", "r", "s",
    "t", "u", "v", "w", "x", "y", "z", "{", "|", "}", "~">>

charCode ==
  [c \in {AsciiChars[k] : k \in 1..Len(AsciiChars)} |->
     31 + CHOOSE k \in 1..Len(AsciiChars) : AsciiChars[k] = c]

\* Buffer.from(string) (character.ts:510): the UTF-8 bytes of the text, one
\* byte for each ASCII character.
bufferFrom(chars) == [k \in 1..Len(chars) |-> charCode[chars[k]]]

\* Buffer.toString() of bytes that are ASCII.
bufferToString(bytes) == [k \in 1..Len(bytes) |-> AsciiChars[bytes[k] - 31]]

\* The base64 alphabet (RFC 4648) and the value of each of its characters.
Base64Chars ==
  << "A", "B", "C", "D", "E", "F", "G", "H", "I", "J", "K", "L", "M", "N",
    "O", "P", "Q", "R", "S", "T", "U", "V", "W", "X", "Y", "Z", "a", "b",
    "c", "d", "e", "f", "g", "h", "i", "j", "k", "l", "m", "n", "o", "p",
    "q", "r", "s", "t", "u", "v", "w", "x", "y", "z", "0", "1", "2", "3",
    "4", "5", "6", "7", "8", "9", "+", "/">>

base64Value ==
  [c \in {Base64Chars[k] : k \in 1..Len(Base64Chars)} \cup {"="} |->
     IF c = "=" THEN 0
     ELSE (CHOOSE k \in 1..Len(Base64Chars) : Base64Chars[k] = c) - 1]

\* Buffer.toString("base64") (character.ts:510): three bytes become four
\* characters, the last group is padded with "=".
base64Encode(bytes) ==
  LET n == Len(bytes)
      byte(k) == IF k <= n THEN bytes[k] ELSE 0
      triple(g) == byte(3 * g + 1) * 65536 + byte(3 * g + 2) * 256
                     + byte(3 * g + 3)
      sextet(g, j) ==
        CASE j = 0 -> triple(g) \div 262144
          [] j = 1 -> (triple(g) \div 4096) % 64
          [] j = 2 -> (triple(g) \div 64) % 64
          [] j = 3 -> triple(g) % 64
  IN  [k \in 1..(4 * ((n + 2) \div 3)) |->
         LET g == (k - 1) \div 4
             j == (k - 1) % 4
         IN  IF 3 * g + j > n THEN "="
             ELSE Base64Chars[sextet(g, j) + 1]]

\* Buffer.from(text, "base64"): four characters become three bytes, less
\* the padding.
base64Decode(chars) ==
  LET m == Len(chars)
      padding == Cardinality({k \in 1..m : chars[k] = "="})
      quad(g) == base64Value[chars[4 * g + 1]] * 262144
                   + base64Value[chars[4 * g + 2]] * 4096
                   + base64Value[chars[4 * g + 3]] * 64
                   + base64Value[chars[4 * g + 4]]
  IN  [k \in 1..(3 * (m \div 4) - padding) |->
         LET g == (k - 1) \div 3
             j == (k - 1) % 3
         IN  CASE j = 0 -> quad(g) \div 65536
               [] j = 1 -> (quad(g) \div 256) % 256
               [] j = 2 -> quad(g) % 256]

\* JSON.parse of a text without white space: a value and the position after
\* it.
RECURSIVE parseString(_, _, _)
parseString(text, p, chars) ==
  IF text[p] = "\"" THEN [value |-> JsonString(chars), next |-> p + 1]
  ELSE IF text[p] = "\\"
    THEN parseString(text, p + 2, Append(chars, text[p + 1]))
    ELSE parseString(text, p + 1, Append(chars, text[p]))

RECURSIVE parseNumber(_, _, _)
parseNumber(text, p, n) ==
  IF p <= Len(text) /\ text[p] \in {Digits[k] : k \in 1..10}
    THEN parseNumber(text, p + 1,
           10 * n + (CHOOSE d \in 0..9 : Digits[d + 1] = text[p]))
    ELSE [value |-> JsonNumber(n), next |-> p]

RECURSIVE parseValue(_, _)
RECURSIVE parseMembers(_, _, _)
parseMembers(text, p, members) ==
  IF text[p] = "}" THEN [value |-> JsonObject(members), next |-> p + 1]
  ELSE IF text[p] = "," THEN parseMembers(text, p + 1, members)
  ELSE LET key == parseString(text, p + 1, <<>>)
           member == parseValue(text, key.next + 1)
       IN  parseMembers(text, member.next,
                        Append(members, <<key.value.v, member.value>>))

parseValue(text, p) ==
  CASE text[p] = "\"" -> parseString(text, p + 1, <<>>)
    [] text[p] = "{" -> parseMembers(text, p + 1, <<>>)
    [] OTHER -> parseNumber(text, p, 0)

JSONparse(text) == parseValue(text, 1).value

\* Faulty variant: the JSON text is put in lower case before it is encoded.
encodePayment_LowerCase(payload) ==
  base64Encode(bufferFrom(toLowerCase(stringify(jsonOf(payload)))))

\* character.ts:509-510: paymentHeader, the value of X-PAYMENT.
encodePayment(payload) ==
  base64Encode(bufferFrom(stringify(jsonOf(payload))))

\* The value of X-PAYMENT in a request made with a payment
\* (character.ts:510, 519).
paymentHeader(request) == encodePayment(request.header)

\* What the receiver of X-PAYMENT reads: the header decoded and parsed.
decodePayment(text) ==
  JSONparse(<<>> \o bufferToString(<<>> \o base64Decode(text)))

\* The responses the weather server may give: the connection fails, or a
\* status arrives with a body, which is a JSON object (`parsed`) with or
\* without the fields error and invalidReason, or is not JSON.
NoResponse ==
  [failed |-> FALSE, status |-> 0, parsed |-> FALSE, error |-> "",
   invalidReason |-> ""]

ResponseOk ==
  [failed |-> FALSE, status |-> 200, parsed |-> TRUE, error |-> "",
   invalidReason |-> ""]

\* The server's answers of spec.md, Scenarios B and E, and a failed connection.
PipelineResponses ==
  { [failed |-> TRUE,  status |-> 0, parsed |-> FALSE, error |-> "",
     invalidReason |-> ""],
    ResponseOk,
    [failed |-> FALSE, status |-> 402, parsed |-> TRUE, error |-> "",
     invalidReason |-> "errInsufficient"] }

Responses ==
  PipelineResponses \cup
  { [failed |-> FALSE, status |-> 402, parsed |-> TRUE,
     error |-> "errRequired", invalidReason |-> "errInsufficient"],
    [failed |-> FALSE, status |-> 500, parsed |-> TRUE, error |-> "",
     invalidReason |-> ""],
    [failed |-> FALSE, status |-> 502, parsed |-> FALSE, error |-> "",
     invalidReason |-> ""] }

\* Faulty variant: every response that arrives counts as a paid report.
paidResult_AnyStatus(response) ==
  IF response.failed
    THEN [success |-> FALSE, status |-> 0, error |-> "errFetch", data |-> ""]
    ELSE [success |-> TRUE, status |-> response.status, error |-> "",
          data |-> "report"]

\* processPaymentAndFetchWeather after fetch (character.ts:525-553):
\* response.json() throws on a body that is not JSON and the catch block
\* returns the failure without a status.
paidResult(response) ==
  IF response.failed
    THEN [success |-> FALSE, status |-> 0, error |-> "errFetch", data |-> ""]
    ELSE IF ~response.parsed
      THEN [success |-> FALSE, status |-> 0, error |-> "errJson", data |-> ""]
      ELSE IF response.status = 200
        THEN [success |-> TRUE, status |-> 200, error |-> "",
              data |-> "report"]
        ELSE [success |-> FALSE, status |-> response.status,
              error |-> IF response.error # "" THEN response.error
                        ELSE IF response.invalidReason # ""
                          THEN response.invalidReason
                          ELSE HttpErrorId[response.status],
              data |-> "body"]

\* fetchWeatherWithoutPayment after fetch (character.ts:399-414): success is
\* true for every status once the body is parsed.
unpaidResult(response) ==
  IF response.failed
    THEN [success |-> FALSE, status |-> 0, error |-> "errFetch", data |-> ""]
    ELSE IF ~response.parsed
      THEN [success |-> FALSE, status |-> 0, error |-> "errJson", data |-> ""]
      ELSE [success |-> TRUE, status |-> response.status, error |-> "",
            data |-> IF response.status = 200 THEN "report" ELSE "body"]

\* Faulty variant: the content is given to the callback twice.
callback_Twice(room, text, detail, action) ==
  messages' = [messages EXCEPT
                 ![room] = @ \o << Memory("agent", text, detail, {action}),
                                   Memory("agent", text, detail, {action}) >>]

\* callback(content): the runtime delivers the answer and stores it in the
\* room's messages (character.ts:737, 796, 845, 879, 938, 968).
callback(room, text, detail, action) ==
  messages' = [messages EXCEPT
                 ![room] = Append(@, Memory("agent", text, detail, {action}))]

\* Faulty variant: the request is sent a second time.
fetch_Twice(i, request) ==
  http' = [http EXCEPT ![i] = @ \o <<request, request>>]

\* fetch(`${apiUrl}/weather`, {headers}) by invocation i (character.ts:392-397,
\* 515-521): `paid` is whether the headers hold X-PAYMENT, `header` its value.
fetch(i, request) ==
  http' = [http EXCEPT ![i] = Append(@, request)]

\* The handler returns `result` after one callback; `answer` is where the
\* runtime stored the content the callback was given.
Finish(i, paymentResult, result) ==
  inv' = [inv EXCEPT ![i].pc = "done",
                     ![i].paymentResult = paymentResult,
                     ![i].result = result,
                     ![i].callbacks = @ + 1,
                     ![i].answer = Len(messages[inv[i].room]) + 1]

\* The response to the request invocation i is waiting for arrives.
receive(i, response) ==
  http' = [http EXCEPT ![i][Len(http[i])].response = response]

\* Faulty variant: the catch block throws the error again, the handler
\* returns nothing.
Caught_Rethrown(i, paymentResult, action) ==
  inv' = [inv EXCEPT ![i].pc = "rejected",
                     ![i].paymentResult = paymentResult]

\* The handler's catch block (character.ts:985-1001; 1214-1228 for the wallet
\* action): the result names the failure, the callback is not called.
Caught(i, paymentResult, action) ==
  inv' = [inv EXCEPT
            ![i].pc = "done",
            ![i].paymentResult = paymentResult,
            ![i].result =
               [success |-> FALSE,
                values |-> IF action = "WEATHER_REPORT"
                             THEN "WEATHER_REPORT_FAILED"
                             ELSE "WALLET_INFO_FAILED"]]

\* `await callback(content); return result`: the callback delivers the
\* content, or throws and the catch block of the handler returns.
Answer(i, delivered, text, detail, action, paymentResult, result) ==
  IF delivered
    THEN /\ callback(inv[i].room, text, detail, action)
         /\ Finish(i, paymentResult, result)
    ELSE /\ UNCHANGED messages
         /\ Caught(i, paymentResult, action)

\* ------------------------------------------------------------------ actions
\* The runtime receives a user message in a room, stores it in "messages" and
\* starts the validate call for it.
Receive(room, text) ==
  /\ Len(inv) < MaxMessages
  /\ messages' = [messages EXCEPT
                    ![room] = Append(@, Memory("user", text, "", {}))]
  /\ inv' = Append(inv, NewInvocation(room, Len(messages[room]) + 1, text))
  /\ http' = Append(http, <<>>)
  /\ UNCHANGED privateKey

\* Faulty variant: validate tells the room what it decided.
Validate_Answers(i, threw) ==
  LET text == inv[i].text
      asked == isApproval(text) \/ isRejection(text)
      valid == validate(text, threw, getMemories(inv[i].room, MemoryCount))
  IN  /\ inv[i].pc = "validate"
      /\ threw => asked
      /\ inv' = [inv EXCEPT
                   ![i].threw = threw,
                   ![i].valid = valid,
                   ![i].lookbacks = IF asked THEN 1 ELSE 0,
                   ![i].pc = IF valid THEN "handler"
                             ELSE IF walletValidate(text) THEN "wallet"
                             ELSE "skipped"]
      /\ callback(inv[i].room, "paymentPrompt", "", "WEATHER_REPORT")
      /\ UNCHANGED <<privateKey, http>>

\* weatherReportAction.validate and walletInfoAction.validate return for the
\* message; the runtime runs the handler of the action that accepted it.
\* getMemories is called on the approval and rejection branches only.
Validate(i, threw) ==
  LET text == inv[i].text
      asked == isApproval(text) \/ isRejection(text)
      valid == validate(text, threw, getMemories(inv[i].room, MemoryCount))
  IN  /\ inv[i].pc = "validate"
      /\ threw => asked
      /\ inv' = [inv EXCEPT
                   ![i].threw = threw,
                   ![i].valid = valid,
                   ![i].lookbacks = IF asked THEN 1 ELSE 0,
                   ![i].pc = IF valid THEN "handler"
                             ELSE IF walletValidate(text) THEN "wallet"
                             ELSE "skipped"]
      /\ UNCHANGED <<privateKey, messages, http>>

\* Faulty variant: the request of the rejection branch carries a payment
\* header.
unpaidRequest_WithPayment ==
  [paid |-> TRUE, header |-> <<>>, response |-> NoResponse]

\* The request of fetchWeatherWithoutPayment (character.ts:392-397): its
\* headers hold Content-Type only.
unpaidRequest ==
  [paid |-> FALSE, header |-> <<>>, response |-> NoResponse]

\* handler, rejection branch (character.ts:715-725): the unpaid request is
\* issued and awaited.
HandleRejection(i) ==
  /\ inv[i].pc = "handler"
  /\ handlerBranch(inv[i].text) = "rejection"
  /\ fetch(i, unpaidRequest)
  /\ inv' = [inv EXCEPT ![i].pc = "fetchUnpaid"]
  /\ UNCHANGED <<privateKey, messages>>

\* fetchWeatherWithoutPayment returns and the handler answers
\* (character.ts:399-414, 727-818).
UnpaidResponse(i, response, delivered) ==
  LET weatherResult == unpaidResult(response)
  IN  /\ inv[i].pc = "fetchUnpaid"
      /\ receive(i, response)
      /\ IF ~weatherResult.success
           THEN Answer(i, delivered, "fetchFailedText", weatherResult.error,
                       "WEATHER_REPORT", weatherResult,
                       [success |-> FALSE, values |-> weatherResult.error])
           ELSE Answer(i, delivered, "unpaidText", "", "WEATHER_REPORT",
                       weatherResult,
                       [success |-> TRUE, values |-> "paymentRejected"])
      /\ UNCHANGED privateKey

\* handler, approval branch (character.ts:822-832): the settings are read.
ReadKey(i) ==
  /\ inv[i].pc = "handler"
  /\ handlerBranch(inv[i].text) = "approval"
  /\ inv' = [inv EXCEPT ![i].pc = "approval", ![i].keyRead = TRUE]
  /\ UNCHANGED <<privateKey, messages, http>>

\* handler, approval branch without a key (character.ts:834-861).
HandleMissingKey(i, delivered) ==
  /\ inv[i].pc = "approval"
  /\ privateKey = ""
  /\ Answer(i, delivered, "missingKeyText", "", "WEATHER_REPORT",
            NoPaymentResult,
            [success |-> FALSE, values |-> "MISSING_PRIVATE_KEY"])
  /\ UNCHANGED <<privateKey, http>>

\* Faulty variant: the authorization is built for nothing.
authorizationMessage_ZeroValue(account, nonce, now1, now2) ==
  [from |-> account.address, to |-> PAYEE_ADDRESS, value |-> 0,
   validAfter |-> validAfter(now1), validBefore |-> validBefore(now2),
   nonce |-> nonce]

\* The authorization message (character.ts:437-457).
authorizationMessage(account, nonce, now1, now2) ==
  [from |-> account.address, to |-> PAYEE_ADDRESS, value |-> Amount,
   validAfter |-> validAfter(now1), validBefore |-> validBefore(now2),
   nonce |-> nonce]

\* Faulty variant: the pipeline is entered without the test of the key
\* (character.ts:834).
HandleApproval_NoKeyCheck(i, nonce, now1, now2) ==
  LET account == privateKeyToAccount(privateKey)
      message == authorizationMessage(account, nonce, now1, now2)
  IN  /\ inv[i].pc = "approval"
      /\ now1 <= now2
      /\ inv' = [inv EXCEPT ![i].pc = "signing", ![i].message = message]
      /\ UNCHANGED <<privateKey, messages, http>>

\* handler, approval branch with a key: processPaymentAndFetchWeather builds
\* the authorization and starts signing it (character.ts:863-867, 424-466).
\* now1 and now2 are what the two calls of Date.now() return.
HandleApproval(i, nonce, now1, now2) ==
  LET account == privateKeyToAccount(privateKey)
      message == authorizationMessage(account, nonce, now1, now2)
  IN  /\ inv[i].pc = "approval"
      /\ privateKey # ""
      /\ privateKey \in ValidKeys
      /\ now1 <= now2
      /\ inv' = [inv EXCEPT ![i].pc = "signing", ![i].message = message]
      /\ UNCHANGED <<privateKey, messages, http>>

\* privateKeyToAccount throws on a malformed key, or signTypedData or
\* verifyTypedData throws: the catch block of the pipeline returns the failure
\* (character.ts:547-553) and the handler reports it (869-896).
PipelineThrows(i, delivered) ==
  LET failure == [success |-> FALSE, status |-> 0, error |-> "errThrown",
                  data |-> ""]
  IN  /\ \/ inv[i].pc = "approval" /\ privateKey # ""
                                   /\ privateKey \notin ValidKeys
         \/ inv[i].pc \in {"signing", "verifying"}
      /\ Answer(i, delivered, "paymentFailedText", failure.error,
                "WEATHER_REPORT", failure,
                [success |-> FALSE, values |-> failure.error])
      /\ UNCHANGED <<privateKey, http>>

\* runtime.getSetting throws (character.ts:720, 829): the catch block of the
\* handler returns.
SettingsThrow(i) ==
  /\ inv[i].pc = "handler"
  /\ handlerBranch(inv[i].text) # "prompt"
  /\ Caught(i, NoPaymentResult, "WEATHER_REPORT")
  /\ UNCHANGED <<privateKey, messages, http>>

\* signTypedData returns; verifyTypedData is called with the signature it
\* returned (character.ts:461-478).
SignDone(i, damaged) ==
  LET account == privateKeyToAccount(privateKey)
      signature == signTypedData(account, EIP3009_DOMAIN, inv[i].message)
  IN  /\ inv[i].pc = "signing"
      /\ inv' = [inv EXCEPT
                   ![i].pc = "verifying",
                   ![i].signature = IF damaged THEN Corrupted(signature)
                                    ELSE signature]
      /\ UNCHANGED <<privateKey, messages, http>>

\* verifyTypedData returns (character.ts:471-521): on false the pipeline
\* returns the failure and the handler reports it (869-896); on true the
\* payload is encoded and the request is issued with X-PAYMENT; the request
\* keeps the payload in `header`, the text sent is paymentHeader(request).
VerifyDone(i, delivered) ==
  LET account == privateKeyToAccount(privateKey)
      isValidSignature ==
        verifyTypedData(account.address, EIP3009_DOMAIN, inv[i].message,
                        inv[i].signature)
      failure == [success |-> FALSE, status |-> 0, error |-> "errSignature",
                  data |-> ""]
      payload == paymentPayload(account, inv[i].message, inv[i].signature)
  IN  /\ inv[i].pc = "verifying"
      /\ IF maySend(isValidSignature)
           THEN /\ delivered
                /\ fetch(i, [paid |-> TRUE,
                              header |-> payload,
                              response |-> NoResponse])
                /\ inv' = [inv EXCEPT ![i].pc = "fetchPaid",
                                      ![i].verified = isValidSignature]
                /\ UNCHANGED messages
           ELSE /\ Answer(i, delivered, "paymentFailedText", failure.error,
                          "WEATHER_REPORT", failure,
                          [success |-> FALSE, values |-> failure.error])
                /\ UNCHANGED http
      /\ UNCHANGED privateKey

\* The paid request returns and the handler answers (character.ts:523-553,
\* 869-955).
PaidResponse(i, response, delivered) ==
  LET paymentResult == paidResult(response)
  IN  /\ inv[i].pc = "fetchPaid"
      /\ receive(i, response)
      /\ IF ~paymentResult.success
           THEN Answer(i, delivered, "paymentFailedText", paymentResult.error,
                       "WEATHER_REPORT", paymentResult,
                       [success |-> FALSE, values |-> paymentResult.error])
           ELSE Answer(i, delivered, "paidText", "", "WEATHER_REPORT",
                       paymentResult,
                       [success |-> TRUE, values |-> "paymentApproved"])
      /\ UNCHANGED privateKey

\* handler, neither rejection nor approval: the payment prompt
\* (character.ts:956-984).
HandlePrompt(i, delivered) ==
  /\ inv[i].pc = "handler"
  /\ handlerBranch(inv[i].text) = "prompt"
  /\ Answer(i, delivered, "paymentPrompt", "", "WEATHER_REPORT",
            NoPaymentResult,
            [success |-> TRUE, values |-> "paymentPrompted"])
  /\ UNCHANGED <<privateKey, http>>

\* walletInfoAction.handler (character.ts:1105-1228): without a key the
\* configuration error, else the wallet text, or the failure text when
\* getWalletInfo returns null.
WalletInfo(i, fetched, delivered) ==
  /\ inv[i].pc = "wallet"
  /\ IF privateKey = ""
       THEN /\ fetched
            /\ Answer(i, delivered, "walletMissingKeyText", "", "WALLET_INFO",
                      NoPaymentResult,
                      [success |-> FALSE, values |-> "MISSING_PRIVATE_KEY"])
       ELSE IF fetched
         THEN Answer(i, delivered, "walletText", "", "WALLET_INFO",
                     NoPaymentResult,
                     [success |-> TRUE, values |-> "walletInfoProvided"])
         ELSE Answer(i, delivered, "walletFailedText", "", "WALLET_INFO",
                     NoPaymentResult,
                     [success |-> FALSE,
                      values |-> "WALLET_INFO_FETCH_FAILED"])
  /\ UNCHANGED <<privateKey, http>>

Next ==
  \/ \E room \in Rooms, text \in UserTexts : Receive(room, text)
  \/ \E i \in 1..Len(inv), threw \in BOOLEAN : Validate(i, threw)
  \/ \E i \in 1..Len(inv) : HandleRejection(i)
  \/ \E i \in 1..Len(inv), response \in Responses, delivered \in BOOLEAN :
       UnpaidResponse(i, response, delivered)
  \/ \E i \in 1..Len(inv) : ReadKey(i)
  \/ \E i \in 1..Len(inv), delivered \in BOOLEAN :
       HandleMissingKey(i, delivered)
  \/ \E i \in 1..Len(inv), nonce \in Nonces, now1, now2 \in ClockReadings :
       HandleApproval(i, nonce, now1, now2)
  \/ \E i \in 1..Len(inv), damaged \in BOOLEAN : SignDone(i, damaged)
  \/ \E i \in 1..Len(inv), delivered \in BOOLEAN : VerifyDone(i, delivered)
  \/ \E i \in 1..Len(inv), response \in Responses, delivered \in BOOLEAN :
       PaidResponse(i, response, delivered)
  \/ \E i \in 1..Len(inv), delivered \in BOOLEAN : HandlePrompt(i, delivered)
  \/ \E i \in 1..Len(inv), fetched, delivered \in BOOLEAN :
       WalletInfo(i, fetched, delivered)
  \/ \E i \in 1..Len(inv), delivered \in BOOLEAN :
       PipelineThrows(i, delivered)
  \/ \E i \in 1..Len(inv) : SettingsThrow(i)

Spec == Init /\ [][Next]_vars

\* The gate on its own: every text may arrive and getMemories may throw,
\* while the clock, signing, the server, the callback and the wallet lookup
\* take their normal course.
GateNext ==
  \/ \E room \in Rooms, text \in UserTexts : Receive(room, text)
  \/ \E i \in 1..Len(inv), threw \in BOOLEAN : Validate(i, threw)
  \/ \E i \in 1..Len(inv) : HandleRejection(i)
  \/ \E i \in 1..Len(inv) : UnpaidResponse(i, ResponseOk, TRUE)
  \/ \E i \in 1..Len(inv) : ReadKey(i)
  \/ \E i \in 1..Len(inv) : HandleMissingKey(i, TRUE)
  \/ \E i \in 1..Len(inv) :
       HandleApproval(i, "nonce1", FirstReading, FirstReading)
  \/ \E i \in 1..Len(inv) : SignDone(i, FALSE)
  \/ \E i \in 1..Len(inv) : VerifyDone(i, TRUE)
  \/ \E i \in 1..Len(inv) : PaidResponse(i, ResponseOk, TRUE)
  \/ \E i \in 1..Len(inv) : HandlePrompt(i, TRUE)
  \/ \E i \in 1..Len(inv) : WalletInfo(i, TRUE, TRUE)

GateSpec == Init /\ [][GateNext]_vars

\* The pipeline on its own: the user asks for the weather, approves or
\* rejects, and every outcome of signing and of the server's protocol may
\* occur.
PipelineTexts == {"textWeather", "textYes", "textNo"}

PipelineNext ==
  \/ \E room \in Rooms, text \in PipelineTexts : Receive(room, text)
  \/ \E i \in 1..Len(inv), threw \in BOOLEAN : Validate(i, threw)
  \/ \E i \in 1..Len(inv) : HandleRejection(i)
  \/ \E i \in 1..Len(inv), response \in PipelineResponses :
       UnpaidResponse(i, response, TRUE)
  \/ \E i \in 1..Len(inv) : ReadKey(i)
  \/ \E i \in 1..Len(inv) : HandleMissingKey(i, TRUE)
  \/ \E i \in 1..Len(inv), nonce \in Nonces :
       HandleApproval(i, nonce, FirstReading, FirstReading)
  \/ \E i \in 1..Len(inv), damaged \in BOOLEAN : SignDone(i, damaged)
  \/ \E i \in 1..Len(inv) : VerifyDone(i, TRUE)
  \/ \E i \in 1..Len(inv), response \in PipelineResponses :
       PaidResponse(i, response, TRUE)
  \/ \E i \in 1..Len(inv) : HandlePrompt(i, TRUE)

PipelineSpec == Init /\ [][PipelineNext]_vars

\* The authorization on its own: in a room that holds the prompt the user
\* approves, with a key configured; the clock may advance between the two
\* readings, every nonce may be drawn and signing may fail.
AuthorizationInit ==
  /\ privateKey = "0xKEY"
  /\ messages = [room \in Rooms |->
                   << Memory("user", "textWeather", "", {}),
                      Memory("agent", "paymentPrompt", "", {"WEATHER_REPORT"}) >>]
  /\ inv = <<>>
  /\ http = <<>>

AuthorizationNext ==
  \/ \E room \in Rooms : Receive(room, "textYes")
  \/ \E i \in 1..Len(inv) : Validate(i, FALSE)
  \/ \E i \in 1..Len(inv) : ReadKey(i)
  \/ \E i \in 1..Len(inv), nonce \in Nonces, now1, now2 \in ClockReadings :
       HandleApproval(i, nonce, now1, now2)
  \/ \E i \in 1..Len(inv), damaged \in BOOLEAN : SignDone(i, damaged)
  \/ \E i \in 1..Len(inv) : VerifyDone(i, TRUE)
  \/ \E i \in 1..Len(inv), response \in PipelineResponses :
       PaidResponse(i, response, TRUE)

AuthorizationSpec == AuthorizationInit /\ [][AuthorizationNext]_vars

\* The encoding on its own: approvals in a room that holds the prompt, with
\* either key, either nonce and a clock that may advance between the two
\* readings, up to the request with X-PAYMENT; signing and verification do
\* not fail.
EncodingInit ==
  /\ privateKey \in ValidKeys
  /\ messages = [room \in Rooms |->
                   << Memory("user", "textWeather", "", {}),
                      Memory("agent", "paymentPrompt", "", {"WEATHER_REPORT"}) >>]
  /\ inv = <<>>
  /\ http = <<>>

EncodingNext ==
  \/ \E room \in Rooms : Receive(room, "textYes")
  \/ \E i \in 1..Len(inv) : Validate(i, FALSE)
  \/ \E i \in 1..Len(inv) : ReadKey(i)
  \/ \E i \in 1..Len(inv), nonce \in Nonces, now2 \in ClockReadings :
       HandleApproval(i, nonce, FirstReading, now2)
  \/ \E i \in 1..Len(inv) : SignDone(i, FALSE)
  \/ \E i \in 1..Len(inv) : VerifyDone(i, TRUE)

EncodingSpec == EncodingInit /\ [][EncodingNext]_vars

\* A room whose prompt is old: after the weather request and the prompt the
\* user wrote MemoryCount messages that no action accepted.
StaleHistory ==
  << Memory("user", "textWeather", "", {}),
     Memory("agent", "paymentPrompt", "", {"WEATHER_REPORT"}) >>
  \o [n \in 1..MemoryCount |-> Memory("user", "textHello", "", {})]

StaleInit ==
  /\ privateKey \in PrivateKeys
  /\ messages \in [Rooms -> {StaleHistory, SubSeq(StaleHistory, 1, 4)}]
  /\ inv = <<>>
  /\ http = <<>>

StaleSpec == StaleInit /\ [][GateNext]_vars

\* Every value the key setting may hold (unset, two keys, a malformed one),
\* every answer of the server to a paid request, a callback that may throw
\* in the approval and prompt branches, and every
\* exception the handler's awaited calls may raise, in a room that holds the
\* prompt; one nonce, a clock that stands still.
KeyInit ==
  /\ privateKey \in AllKeys
  /\ messages = [room \in Rooms |->
                   << Memory("user", "textWeather", "", {}),
                      Memory("agent", "paymentPrompt", "", {"WEATHER_REPORT"}) >>]
  /\ inv = <<>>
  /\ http = <<>>

KeyNext ==
  \/ \E room \in Rooms, text \in PipelineTexts : Receive(room, text)
  \/ \E i \in 1..Len(inv) : Validate(i, FALSE)
  \/ \E i \in 1..Len(inv) : HandleRejection(i)
  \/ \E i \in 1..Len(inv), response \in PipelineResponses :
       UnpaidResponse(i, response, TRUE)
  \/ \E i \in 1..Len(inv) : ReadKey(i)
  \/ \E i \in 1..Len(inv), delivered \in BOOLEAN :
       HandleMissingKey(i, delivered)
  \/ \E i \in 1..Len(inv) :
       HandleApproval(i, "nonce1", FirstReading, FirstReading)
  \/ \E i \in 1..Len(inv), damaged \in BOOLEAN : SignDone(i, damaged)
  \/ \E i \in 1..Len(inv), delivered \in BOOLEAN : VerifyDone(i, delivered)
  \/ \E i \in 1..Len(inv), response \in Responses, delivered \in BOOLEAN :
       PaidResponse(i, response, delivered)
  \/ \E i \in 1..Len(inv), delivered \in BOOLEAN : HandlePrompt(i, delivered)
  \/ \E i \in 1..Len(inv), delivered \in BOOLEAN :
       PipelineThrows(i, delivered)
  \/ \E i \in 1..Len(inv) : SettingsThrow(i)

KeySpec == KeyInit /\ [][KeyNext]_vars

\* The answers of the server that end the two fetch calls in their three
\* ways: the connection fails, the body parses, the body does not parse.
LiveResponses ==
  { [failed |-> TRUE,  status |-> 0, parsed |-> FALSE, error |-> "",
     invalidReason |-> ""],
    ResponseOk,
    [failed |-> FALSE, status |-> 502, parsed |-> FALSE, error |-> "",
     invalidReason |-> ""] }

\* One step of the handler of invocation i: an awaited call (settings lookup,
\* signing, verification, fetch with body parsing, callback) returns or
\* throws.
HandlerStep(i) ==
  /\ i <= Len(inv)
  /\ \/ HandleRejection(i)
     \/ \E response \in LiveResponses, delivered \in BOOLEAN :
          UnpaidResponse(i, response, delivered)
     \/ ReadKey(i)
     \/ \E delivered \in BOOLEAN : HandleMissingKey(i, delivered)
     \/ HandleApproval(i, "nonce1", FirstReading, FirstReading)
     \/ \E damaged \in BOOLEAN : SignDone(i, damaged)
     \/ \E delivered \in BOOLEAN : VerifyDone(i, delivered)
     \/ \E response \in LiveResponses, delivered \in BOOLEAN :
          PaidResponse(i, response, delivered)
     \/ \E delivered \in BOOLEAN : HandlePrompt(i, delivered)
     \/ \E delivered \in BOOLEAN : PipelineThrows(i, delivered)
     \/ SettingsThrow(i)

\* A room that holds the prompt, with every value of the key setting.
LiveInit ==
  /\ privateKey \in AllKeys \ {"0xKEY2"}
  /\ messages = [room \in Rooms |->
                   << Memory("user", "textWeather", "", {}),
                      Memory("agent", "paymentPrompt", "", {"WEATHER_REPORT"}) >>]
  /\ inv = <<>>
  /\ http = <<>>

LiveNext ==
  \/ \E room \in Rooms, text \in PipelineTexts : Receive(room, text)
  \/ \E i \in 1..Len(inv) : Validate(i, FALSE)
  \/ \E i \in 1..Len(inv) : HandleRejection(i)
  \/ \E i \in 1..Len(inv), response \in LiveResponses, delivered \in BOOLEAN :
       UnpaidResponse(i, response, delivered)
  \/ \E i \in 1..Len(inv) : ReadKey(i)
  \/ \E i \in 1..Len(inv), delivered \in BOOLEAN :
       HandleMissingKey(i, delivered)
  \/ \E i \in 1..Len(inv) :
       HandleApproval(i, "nonce1", FirstReading, FirstReading)
  \/ \E i \in 1..Len(inv), damaged \in BOOLEAN : SignDone(i, damaged)
  \/ \E i \in 1..Len(inv), delivered \in BOOLEAN : VerifyDone(i, delivered)
  \/ \E i \in 1..Len(inv), response \in LiveResponses, delivered \in BOOLEAN :
       PaidResponse(i, response, delivered)
  \/ \E i \in 1..Len(inv), delivered \in BOOLEAN : HandlePrompt(i, delivered)
  \/ \E i \in 1..Len(inv), delivered \in BOOLEAN :
       PipelineThrows(i, delivered)
  \/ \E i \in 1..Len(inv) : SettingsThrow(i)

\* The runs in which no awaited call of a handler hangs: each one returns or
\* throws in the end.
LiveSpec ==
  LiveInit /\ [][LiveNext]_vars /\ \A i \in 1..MaxMessages : WF_vars(HandlerStep(i))

\* Two rooms whose conversations interleave: each starts empty or with the
\* prompt, a key is configured, the server answers 200 and nothing fails.
TwoRooms == {"r1", "r2"}

RoomsInit ==
  /\ privateKey = "0xKEY"
  /\ messages \in [TwoRooms -> InitialHistories]
  /\ inv = <<>>
  /\ http = <<>>

RoomsNext ==
  \/ \E room \in TwoRooms, text \in PipelineTexts : Receive(room, text)
  \/ \E i \in 1..Len(inv) : Validate(i, FALSE)
  \/ \E i \in 1..Len(inv) : HandleRejection(i)
  \/ \E i \in 1..Len(inv) : UnpaidResponse(i, ResponseOk, TRUE)
  \/ \E i \in 1..Len(inv) : ReadKey(i)
  \/ \E i \in 1..Len(inv) :
       HandleApproval(i, "nonce1", FirstReading, FirstReading)
  \/ \E i \in 1..Len(inv) : SignDone(i, FALSE)
  \/ \E i \in 1..Len(inv) : VerifyDone(i, TRUE)
  \/ \E i \in 1..Len(inv) : PaidResponse(i, ResponseOk, TRUE)
  \/ \E i \in 1..Len(inv) : HandlePrompt(i, TRUE)

RoomsSpec == RoomsInit /\ [][RoomsNext]_vars

\* ------------------------------------------------------------------- claims
\* What the claims speak of, read off the state.
Invocations == 1..Len(inv)

\* The text of the message that triggered invocation i carries a weather,
\* an approval, a rejection keyword.
WeatherSignal(i) == isWeatherRequestText[inv[i].text]
ApprovalSignal(i) == isApprovalText[inv[i].text]
RejectionSignal(i) == isRejectionText[inv[i].text]

\* Invocation i has built an authorization (and asked for its signature).
Built(i) == inv[i].message # NoMessage

\* Invocation i holds a signature.
Signed(i) == inv[i].signature # NoSignature

\* The requests invocation i has issued with, and without, X-PAYMENT.
PaidRequests(i) == {n \in 1..Len(http[i]) : http[i][n].paid}
UnpaidRequests(i) == {n \in 1..Len(http[i]) : ~http[i][n].paid}

\* validate has returned for invocation i.
Validated(i) == inv[i].pc # "validate"

\* The handler of WEATHER_REPORT was not run for invocation i.
NotHandled(i) == inv[i].pc \in {"skipped", "wallet"}

\* The callback of invocation i threw and the handler's catch block returned.
CallbackThrew(i) ==
  /\ inv[i].pc = "done"
  /\ inv[i].result.values \in {"WEATHER_REPORT_FAILED", "WALLET_INFO_FAILED"}

\* Message k of the room is the payment prompt, emitted by the agent.
IsPrompt(room, k) ==
  /\ messages[room][k].sender = "agent"
  /\ messages[room][k].text = "paymentPrompt"

\* None of the last 10 messages of the room carries the WEATHER_REPORT label
\* or a text containing "0.001", "usdc" or "payment".
NoPaymentTrace(room) ==
  \A k \in 1..Len(messages[room]) :
    k > Len(messages[room]) - 10 =>
      /\ "WEATHER_REPORT" \notin messages[room][k].actions
      /\ ~memTextIsPayment[messages[room][k].text][messages[room][k].detail]

\* The gate of the room when its message k arrives: a prompt is outstanding
\* when the last answer of WEATHER_REPORT before k is the prompt.
AwaitingApprovalAt(room, k) ==
  \E p \in 1..(k - 1) :
    /\ IsPrompt(room, p)
    /\ \A q \in (p + 1)..(k - 1) :
         "WEATHER_REPORT" \notin messages[room][q].actions

\* The signature invocation i holds verifies against its account and message.
SignatureVerifies(i) ==
  /\ inv[i].signature.signer = privateKeyToAccount(privateKey).address
  /\ inv[i].signature.domain = EIP3009_DOMAIN
  /\ inv[i].signature.message = inv[i].message

\* Invocation i has a signing or a request pending.
Outstanding(i) ==
  inv[i].pc \in {"signing", "verifying", "fetchPaid", "fetchUnpaid"}

\* C1: an invocation of the handler builds or signs an authorization, or
\* issues a request with X-PAYMENT, only if its triggering message carries an
\* approval keyword.
C1_PaymentNeedsApproval ==
  \A i \in Invocations :
    (Built(i) \/ Signed(i) \/ PaidRequests(i) # {})
      => ApprovalSignal(i)

\* C1 witness: a message with an approval keyword has led to a paid request.
C1_Witness ==
  \E i \in Invocations :
    /\ ApprovalSignal(i)
    /\ Signed(i)
    /\ PaidRequests(i) # {}

\* C2 (as claimed): a request with X-PAYMENT is issued only by an invocation
\* whose approval message came after a payment prompt of the agent in the
\* same room.
C2_PromptPrecedesPayment ==
  \A i \in Invocations :
    PaidRequests(i) # {} =>
      \E k \in 1..(inv[i].at - 1) : IsPrompt(inv[i].room, k)

C4_RejectionAlwaysHonored ==
  \A i \in Invocations :
    (RejectionSignal(i) /\ Validated(i))
      => inv[i].valid /\ ~NotHandled(i)

\* C4 (amended): for every message with a rejection signal and no approval
\* signal validate returns true, whatever the history and also when
\* getMemories throws, and the handler issues the unpaid request and nothing
\* else.
C4_PureRejectionHonored ==
  \A i \in Invocations :
    ( /\ RejectionSignal(i)
      /\ ~ApprovalSignal(i)
      /\ Validated(i) )
    => /\ inv[i].valid
       /\ inv[i].pc \in {"handler", "fetchUnpaid", "done"}
       /\ inv[i].pc # "handler" => (Len(http[i]) = 1 /\ ~http[i][1].paid)
       /\ ~Built(i)

\* C4 witness: a rejection was honoured although getMemories threw.
C4_Witness ==
  \E i \in Invocations :
    /\ RejectionSignal(i)
    /\ ~ApprovalSignal(i)
    /\ inv[i].threw
    /\ inv[i].pc = "done"
    /\ UnpaidRequests(i) # {}

\* C5: a request with X-PAYMENT is issued only once the local verification of
\* the signature over that authorization has returned true, and it carries
\* that authorization; when the verification returned false the pipeline
\* ends with "Signature verification failed" and has issued no request.
C5_VerifyBeforeSend ==
  \A i \in Invocations :
    /\ \A n \in PaidRequests(i) :
         /\ inv[i].pc \in {"fetchPaid", "done"}
         /\ SignatureVerifies(i)
         /\ http[i][n].header.payload.signature = inv[i].signature
         /\ http[i][n].header.payload.authorization.nonce
              = inv[i].message.nonce
    /\ (Signed(i) /\ ~SignatureVerifies(i) /\ inv[i].pc \notin {"verifying"})
       => /\ inv[i].pc = "done"
          /\ http[i] = <<>>
          /\ ~inv[i].paymentResult.success
          /\ inv[i].paymentResult.error = "errSignature"
          /\ ~inv[i].result.success

\* C5 witness: one pipeline stopped at a failed verification without a
\* request, another sent its request after a successful one.
C5_Witness ==
  \E i, j \in Invocations :
    /\ Signed(i) /\ ~SignatureVerifies(i) /\ inv[i].pc = "done"
    /\ http[i] = <<>>
    /\ Signed(j) /\ SignatureVerifies(j) /\ PaidRequests(j) # {}

\* C6 (as claimed): once an approval has run the payment pipeline in a room
\* and was paid, a further approval in that room leads to a paid request
\* only if a payment prompt was emitted in between: one prompt authorizes at
\* most one payment.
C6_OnePaymentPerPrompt ==
  \A i, j \in Invocations :
    ( /\ inv[i].room = inv[j].room
      /\ inv[i].pc = "done" /\ inv[i].paymentResult.success
      /\ PaidRequests(i) # {}
      /\ inv[i].answer < inv[j].at
      /\ PaidRequests(j) # {} )
    => \E k \in (inv[i].answer + 1)..(inv[j].at - 1) : IsPrompt(inv[i].room, k)

\* C7 (as claimed): when the handler has run for a message that carries a
\* weather keyword and arrived while the gate was Idle, it has emitted the
\* payment prompt, built no authorization and issued no request.
C7_WeatherRequestOnlyPrompts ==
  \A i \in Invocations :
    ( /\ WeatherSignal(i)
      /\ ~AwaitingApprovalAt(inv[i].room, inv[i].at)
      /\ inv[i].pc \notin {"validate", "handler", "skipped", "wallet"}
      /\ ~CallbackThrew(i) )
    => /\ http[i] = <<>>
       /\ ~Built(i)
       /\ inv[i].pc = "done"
       /\ inv[i].answer > 0
       /\ IsPrompt(inv[i].room, inv[i].answer)

\* C8 (as claimed): a message with both an approval and a rejection keyword
\* is an approval for validate (refused when getMemories throws) and for the
\* handler (no unpaid request; the payment pipeline when the key is set).
C8_TieBreakTowardsApproval ==
  \A i \in Invocations :
    ( /\ ApprovalSignal(i)
      /\ RejectionSignal(i)
      /\ Validated(i) )
    => /\ inv[i].threw => ~inv[i].valid
       /\ UnpaidRequests(i) = {}
       /\ inv[i].pc # "fetchUnpaid"
       /\ ( /\ inv[i].valid
            /\ inv[i].pc \notin {"handler", "approval"}
            /\ privateKey # "" )
            => Built(i)

\* C9: every pipeline invocation issues at most one request; a paid request
\* carries the authorization and signature of its own invocation, and a
\* failed attempt (non-200 status or transport error) is not followed by
\* another request.
C9_SingleUse ==
  \A i \in Invocations :
    /\ Len(http[i]) <= 1
    /\ \A n \in PaidRequests(i) :
         /\ Built(i)
         /\ http[i][n].header.payload.signature = inv[i].signature
         /\ http[i][n].header.payload.authorization.nonce
              = inv[i].message.nonce
    /\ (inv[i].pc = "done" /\ Built(i)) => Cardinality(PaidRequests(i)) <= 1

\* C9 witness: a paid request failed (non-200 status or transport error) and
\* its invocation ended with that one request.
C9_Witness ==
  \E i \in Invocations :
    /\ inv[i].pc = "done"
    /\ Cardinality(PaidRequests(i)) = 1
    /\ ~inv[i].paymentResult.success
    /\ inv[i].paymentResult.status = 402

\* C10 (as claimed): in one room no two invocations have a signing or a
\* request pending at the same time.
C10_PerRoomSerialization ==
  \A i, j \in Invocations :
    (i # j /\ inv[i].room = inv[j].room)
      => ~(Outstanding(i) /\ Outstanding(j))

\* The response invocation i received to its request n.
ResponseTo(i, n) == http[i][n].response

\* Invocation i has received the server's response (a status and a body) to
\* its request n.
Responded(i, n) ==
  /\ inv[i].pc = "done"
  /\ ResponseTo(i, n) # NoResponse
  /\ ~ResponseTo(i, n).failed

\* C11 (as claimed): a paid request is a success, with status 200, exactly
\* when the response status is 200; every other status gives a failure with
\* that status and the body's error, else its invalidReason, else
\* "HTTP <status>".
C11_PaidClassification ==
  \A i \in Invocations :
    \A n \in PaidRequests(i) :
      Responded(i, n) =>
        LET response == ResponseTo(i, n)
            outcome == inv[i].paymentResult
        IN  /\ outcome.success <=> (response.status = 200)
            /\ outcome.status = response.status
            /\ response.status # 200 =>
                 outcome.error =
                   IF response.error # "" THEN response.error
                   ELSE IF response.invalidReason # ""
                     THEN response.invalidReason
                     ELSE HttpErrorId[response.status]

\* C12 (as claimed): an unpaid request whose response body is parsed is a
\* success only when the status is 200; every other status gives a failure
\* with that status.
C12_UnpaidClassification ==
  \A i \in Invocations :
    \A n \in UnpaidRequests(i) :
      (Responded(i, n) /\ ResponseTo(i, n).parsed) =>
        /\ inv[i].paymentResult.success <=> (ResponseTo(i, n).status = 200)
        /\ inv[i].paymentResult.status = ResponseTo(i, n).status

\* C13: an unpaid request is issued only for a message with a rejection
\* signal, and the handler's invocation for such a message never reads the
\* private key, builds or signs no authorization and sends one request,
\* without X-PAYMENT.
C13_NoPaymentPathConfined ==
  \A i \in Invocations :
    /\ UnpaidRequests(i) # {} => RejectionSignal(i)
    /\ ( /\ RejectionSignal(i)
         /\ inv[i].valid
         /\ inv[i].pc \in {"fetchUnpaid", "done"} ) =>
         /\ ~inv[i].keyRead
         /\ ~Built(i)
         /\ ~Signed(i)
         /\ Len(http[i]) = 1
         /\ \A n \in 1..Len(http[i]) : ~http[i][n].paid

\* C13 witness: with a key configured a rejection was answered by the unpaid
\* request.
C13_Witness ==
  \E i \in Invocations :
    /\ privateKey # ""
    /\ RejectionSignal(i)
    /\ inv[i].pc = "done"
    /\ UnpaidRequests(i) # {}

\* C14 (as claimed): the window of every authorization built is
\* [t - 600, t + 3600] for one time t, so it is 4200 seconds long.
C14_ValidityWindow ==
  \A i \in Invocations :
    Built(i) =>
      /\ inv[i].message.validBefore - inv[i].message.validAfter = 600 + 3600
      /\ \E now \in ClockReadings :
           /\ inv[i].message.validAfter = (now \div 1000) - 600
           /\ inv[i].message.validBefore = (now \div 1000) + 3600

C16_ErrorsSurfacedTwice ==
  \A i \in Invocations :
    (inv[i].pc = "done" /\ ~inv[i].result.success) =>
      /\ inv[i].callbacks >= 1
      /\ inv[i].answer > 0

\* The requests that are neither about the weather nor an answer to the
\* prompt, and that another action accepts.
UnrelatedRequestText ==
  [id \in UserTexts |->
     /\ walletValidate(id)
     /\ ~isWeatherRequestText[id]
     /\ ~isApprovalText[id]
     /\ ~isRejectionText[id]]

\* C17 (as claimed): no authorization is built for an approval when, since
\* the last payment prompt of the room, the user has sent an unrelated
\* request.
C17_SupersededPromptNotPaid ==
  \A i \in Invocations :
    Built(i) =>
      ~ \E p, k \in 1..(inv[i].at - 1) :
          /\ p < k
          /\ IsPrompt(inv[i].room, p)
          /\ \A q \in (p + 1)..(inv[i].at - 1) : ~IsPrompt(inv[i].room, q)
          /\ messages[inv[i].room][k].sender = "user"
          /\ UnrelatedRequestText[messages[inv[i].room][k].text]

\* The messages that are neither an approval, a rejection, a weather request
\* nor a request to another action.
OtherText ==
  [id \in UserTexts |->
     /\ ~walletValidate(id)
     /\ ~isWeatherRequestText[id]
     /\ ~isApprovalText[id]
     /\ ~isRejectionText[id]]

\* C18 (as claimed): an approval that arrives after a payment prompt and any
\* number of other messages is accepted by validate (when getMemories
\* answers).
C18_NoTimeout ==
  \A i \in Invocations :
    ( /\ ApprovalSignal(i)
      /\ ~RejectionSignal(i)
      /\ Validated(i)
      /\ ~inv[i].threw
      /\ \E p \in 1..(inv[i].at - 1) :
           /\ IsPrompt(inv[i].room, p)
           /\ \A k \in (p + 1)..(inv[i].at - 1) :
                /\ messages[inv[i].room][k].sender = "user"
                /\ OtherText[messages[inv[i].room][k].text] )
    => inv[i].valid

\* C19 (as claimed): an approval signal that arrives with a payment prompt
\* among the last 10 messages and a key configured is accepted, and the
\* handler builds, signs, verifies and then sends exactly one request with
\* X-PAYMENT and no other; a 200 response gives success=true, status 200.
C19_ApprovedPipelineOrder ==
  \A i \in Invocations :
    ( /\ ApprovalSignal(i)
      /\ Validated(i)
      /\ ~inv[i].threw
      /\ privateKey # ""
      /\ \E p \in 1..(inv[i].at - 1) :
           p > inv[i].at - MemoryCount /\ IsPrompt(inv[i].room, p) )
    => /\ inv[i].valid
       /\ UnpaidRequests(i) = {}
       /\ inv[i].pc \in {"handler", "approval", "signing", "verifying",
                          "fetchPaid", "done"}
       /\ inv[i].pc \in {"signing", "verifying", "fetchPaid"} => Built(i)
       /\ inv[i].pc \in {"verifying", "fetchPaid"} => Signed(i)
       /\ inv[i].pc = "fetchPaid" => inv[i].verified
       /\ PaidRequests(i) # {} => (inv[i].verified /\ Len(http[i]) = 1)
       /\ \A n \in PaidRequests(i) :
            ( /\ Responded(i, n)
              /\ ResponseTo(i, n).parsed
              /\ ResponseTo(i, n).status = 200 )
            => /\ inv[i].paymentResult.success
               /\ inv[i].paymentResult.status = 200

\* Number("...") of a decimal string; -1 when a character is not a digit.
RECURSIVE parseDecimal(_)
parseDecimal(s) ==
  IF s = <<>> THEN 0
  ELSE IF \E d \in 1..10 : Digits[d] = s[Len(s)]
    THEN LET rest == parseDecimal(SubSeq(s, 1, Len(s) - 1))
         IN  IF rest < 0 THEN -1
             ELSE 10 * rest + (CHOOSE d \in 1..10 : Digits[d] = s[Len(s)]) - 1
    ELSE -1

\* C20: the authorization of every payload sent is the message that was
\* signed and verified, field by field, with value, validAfter and
\* validBefore as decimal strings, under version 1, scheme "exact" and
\* network "base-sepolia".
C20_PayloadIsSignedMessage ==
  \A i \in Invocations :
    \A n \in PaidRequests(i) :
      LET sent == http[i][n].header
          authorization == sent.payload.authorization
          signed == inv[i].signature.message
      IN  /\ inv[i].verified
          /\ SignatureVerifies(i)
          /\ sent.payload.signature = inv[i].signature
          /\ authorization.from = signed.from
          /\ authorization.to = signed.to
          /\ authorization.nonce = signed.nonce
          /\ authorization.value # <<>>
          /\ authorization.validAfter # <<>>
          /\ authorization.validBefore # <<>>
          /\ parseDecimal(authorization.value) = signed.value
          /\ parseDecimal(authorization.validAfter) = signed.validAfter
          /\ parseDecimal(authorization.validBefore) = signed.validBefore
          /\ sent.x402Version = 1
          /\ sent.scheme = "exact"
          /\ sent.network = "base-sepolia"

\* C20 witness: a payload was sent whose window was built while the clock
\* advanced.
C20_Witness ==
  \E i \in Invocations :
    /\ PaidRequests(i) # {}
    /\ inv[i].message.validBefore - inv[i].message.validAfter # 600 + 3600

\* The signature invocation i holds is the one signTypedData returns for its
\* account, the domain and its message.
Undamaged(i) ==
  /\ Signed(i)
  /\ inv[i].signature
       = signTypedData(privateKeyToAccount(privateKey), EIP3009_DOMAIN,
                       inv[i].message)

\* The handler of invocation i returned from its catch block, or the pipeline
\* returned from its own.
PipelineThrew(i) ==
  /\ inv[i].pc = "done"
  /\ inv[i].paymentResult.error = "errThrown"

\* C24: for every valid key and every authorization the pipeline builds, the
\* verification that follows the signing, with the same domain and message
\* and the address of the signing account, returns true: the signature that
\* signTypedData returned verifies, the pipeline goes on to the paid request
\* and never reports "Signature verification failed" for it.
C24_SignVerifyClosure ==
  \A i \in Invocations :
    Undamaged(i) =>
      /\ privateKey \in ValidKeys
      /\ verifyTypedData(privateKeyToAccount(privateKey).address,
                         EIP3009_DOMAIN, inv[i].message, inv[i].signature)
      /\ inv[i].pc = "fetchPaid" => inv[i].verified
      /\ inv[i].pc = "done" =>
           /\ inv[i].paymentResult.error # "errSignature"
           /\ (~PipelineThrew(i) /\ ~CallbackThrew(i)) => inv[i].verified

\* C24 witness: with the second key, an authorization was signed, verified
\* and sent.
C24_Witness ==
  \E i \in Invocations :
    /\ privateKey = "0xKEY2"
    /\ Undamaged(i)
    /\ inv[i].verified
    /\ PaidRequests(i) # {}

C27_OneDomain ==
  LET domain == [name |-> "USDC", version |-> "2", chainId |-> 84532,
                 verifyingContract |->
                   "0x036CbD53842c5426634e7929541eC2318f3dCF7e"]
  IN  \A i \in Invocations :
        /\ Signed(i) => inv[i].signature.domain = domain
        /\ inv[i].verified =>
             verifyTypedData(privateKeyToAccount(privateKey).address, domain,
                             inv[i].message, inv[i].signature)
        /\ \A n \in PaidRequests(i) :
             http[i][n].header.payload.signature.domain = domain

\* C27 witness: two invocations have signed, the second after the first
\* verified.
C27_Witness ==
  \E i, j \in Invocations :
    /\ i # j
    /\ inv[i].verified
    /\ Signed(j)
    /\ inv[j].signature.domain = inv[i].signature.domain

\* The paid request of invocation i was answered with status 200 and a body
\* that is JSON.
PaidOk(i) ==
  \E n \in PaidRequests(i) :
    /\ ~http[i][n].response.failed
    /\ http[i][n].response.status = 200
    /\ http[i][n].response.parsed

\* The paid request of invocation i was answered otherwise: the connection
\* failed, the status is not 200 or the body is not JSON.
PaidNotOk(i) ==
  \E n \in PaidRequests(i) :
    /\ http[i][n].response # NoResponse
    /\ \/ http[i][n].response.failed
       \/ http[i][n].response.status # 200
       \/ ~http[i][n].response.parsed

\* C28: the handler returns success with paymentApproved, the pipeline
\* reports success and the room receives "Payment processed successfully"
\* from an invocation only if the paid request of that invocation returned
\* 200 with a body that parses; on another status, a transport error or an
\* unparseable body the handler returns success = false.
C28_SuccessNotOverReported ==
  \A i \in Invocations :
    /\ (inv[i].result.success /\ inv[i].result.values = "paymentApproved")
         => PaidOk(i)
    /\ inv[i].paymentResult.success /\ Built(i) => PaidOk(i)
    /\ (inv[i].answer > 0 /\
        messages[inv[i].room][inv[i].answer].text = "paidText") => PaidOk(i)
    /\ (inv[i].pc = "done" /\ PaidNotOk(i)) =>
         /\ ~inv[i].result.success
         /\ inv[i].result.values # "paymentApproved"

\* C28 witness: a paid request was answered 500 with a body that is JSON,
\* the handler returned a failure and said so in the room.
C28_Witness ==
  \E i \in Invocations :
    /\ inv[i].pc = "done"
    /\ \E n \in PaidRequests(i) :
         /\ http[i][n].response.status = 500
         /\ http[i][n].response.parsed
    /\ ~inv[i].result.success
    /\ inv[i].answer > 0

\* C29: an invocation of the handler issues no request (prompt, missing key,
\* signature failure) or exactly one, the paid or the unpaid one, never both.
C29_AtMostOneRequest ==
  \A i \in Invocations :
    /\ Len(http[i]) <= 1
    /\ ~(PaidRequests(i) # {} /\ UnpaidRequests(i) # {})
    /\ inv[i].pc = "done" =>
         /\ inv[i].result.values \in {"paymentPrompted", "MISSING_PRIVATE_KEY",
                                      "errSignature"}
              => http[i] = <<>>
         /\ inv[i].result.values \in {"paymentApproved", "paymentRejected"}
              => Len(http[i]) = 1
         /\ inv[i].result.values = "paymentApproved"
              => Cardinality(PaidRequests(i)) = 1
         /\ inv[i].result.values = "paymentRejected"
              => Cardinality(UnpaidRequests(i)) = 1

\* C29 witness: in one room an invocation ended after a signature failure
\* with no request and another ended with its one unpaid request.
C29_Witness ==
  \E i, j \in Invocations :
    /\ inv[i].pc = "done"
    /\ inv[i].result.values = "errSignature"
    /\ http[i] = <<>>
    /\ inv[j].pc = "done"
    /\ Len(http[j]) = 1
    /\ UnpaidRequests(j) # {}

\* The handler of invocation i has ended by returning a result.
Returned(i) ==
  /\ Len(inv) >= i
  /\ inv[i].pc = "done"
  /\ inv[i].result # NoResult

\* An exception was raised in invocation i: by a call of the pipeline, by the
\* settings lookup or by the callback.
ExceptionRaised(i) ==
  \/ PipelineThrew(i)
  \/ inv[i].paymentResult.error \in {"errFetch", "errJson"}
  \/ inv[i].pc \notin {"validate", "skipped", "wallet", "handler", "approval",
                      "signing", "verifying", "fetchPaid", "fetchUnpaid"}
       /\ inv[i].answer = 0

\* C30: provided every awaited call returns or throws, every invocation of
\* the handler ends by returning a result, and an exception raised at any
\* step ends in a result with success = false.
C30_HandlerAlwaysReturns ==
  /\ \A i \in 1..MaxMessages :
       (Len(inv) >= i /\ inv[i].pc = "handler") ~> Returned(i)
  /\ [](\A i \in Invocations :
          /\ inv[i].pc \in {"validate", "skipped", "wallet", "handler",
                            "approval", "signing", "verifying", "fetchPaid",
                            "fetchUnpaid", "done"}
          /\ inv[i].pc = "done" => inv[i].result # NoResult
          /\ (inv[i].pc \notin {"validate", "skipped", "wallet", "handler"}
              /\ ExceptionRaised(i))
               => /\ inv[i].pc = "done"
                  /\ ~inv[i].result.success)

\* C30 witness: two exceptions and their results: in one invocation the
\* callback threw after a successful paid request, in another the
\* verification threw; both returned a failure.
C30_Witness ==
  \E i, j \in Invocations :
    /\ Returned(i)
    /\ ~inv[i].result.success
    /\ inv[i].paymentResult.success /\ inv[i].answer = 0 /\ PaidOk(i)
    /\ Returned(j)
    /\ ~inv[j].result.success
    /\ PipelineThrew(j) /\ Signed(j)

\* Some message room ever held carries the WEATHER_REPORT label or a payment
\* text.
RoomEverPrompted(room) ==
  \E k \in 1..Len(messages[room]) :
    \/ "WEATHER_REPORT" \in messages[room][k].actions
    \/ memTextIsPayment[messages[room][k].text][messages[room][k].detail]

\* A step of invocation i touches its own room, its own record and its own
\* requests only; its validate returns, for an approval, what the last
\* messages of its own room say.
OwnRoomOnly(i) ==
  inv'[i] # inv[i] =>
    /\ \A r \in DOMAIN messages :
         r # inv[i].room => messages'[r] = messages[r]
    /\ \A j \in Invocations : j # i => inv'[j] = inv[j] /\ http'[j] = http[j]
    /\ (inv[i].pc = "validate" /\ isApproval(inv[i].text)) =>
         inv'[i].valid = ~NoPaymentTrace(inv[i].room)
    /\ (inv[i].pc = "validate" /\ ~isApproval(inv[i].text)) =>
         inv'[i].valid = (isRejection(inv[i].text)
                          \/ isWeatherRequest(inv[i].text))

\* C22: invocations of different rooms interleave without affecting each
\* other: a step of an invocation reads and writes the messages of its own
\* room only and leaves every other invocation as it is, the lookback of an
\* approval is answered from its own room, and no approval is accepted and
\* no authorization built in a room that never held a prompt, whatever the
\* other room holds.
C22_SessionsIndependent ==
  /\ [][\A i \in Invocations : OwnRoomOnly(i)]_vars
  /\ [][\A r \in DOMAIN messages :
          messages'[r] # messages[r] =>
            \/ \E i \in Invocations : inv[i].room = r /\ inv'[i] # inv[i]
            \/ Len(inv') > Len(inv) /\ inv'[Len(inv')].room = r]_vars
  /\ [](\A i \in Invocations :
          (ApprovalSignal(i) /\ (inv[i].valid \/ Built(i)
                                 \/ PaidRequests(i) # {}))
            => RoomEverPrompted(inv[i].room))

\* C22 witness: room r2 holds the prompt and an approval written there was
\* paid, while an approval written in room r1, which holds no prompt, was
\* refused.
C22_Witness ==
  \E i, j \in Invocations :
    /\ inv[i].room = "r1"
    /\ ApprovalSignal(i)
    /\ Validated(i)
    /\ ~inv[i].valid
    /\ ~RoomEverPrompted("r1")
    /\ \E k \in 1..Len(messages["r2"]) : IsPrompt("r2", k)
    /\ inv[j].room = "r2"
    /\ ApprovalSignal(j)
    /\ PaidRequests(j) # {}

\* The strings invocation i has written to the log: the records of the
\* pipeline, and the error or the payment result of a failure
\* (character.ts:548, 871).
LogStrings(i) ==
  IF Built(i)
    THEN LET record == pipelineLog(privateKeyToAccount(privateKey),
                                   inv[i].message, inv[i].signature)
         IN  {record.address, record.nonce, record.signature,
              inv[i].paymentResult.error, inv[i].paymentResult.data}
    ELSE {inv[i].paymentResult.error, inv[i].paymentResult.data}

\* The strings of the requests invocation i has sent with X-PAYMENT.
RequestStrings(i) ==
  UNION { LET header == http[i][n].header
              authorization == header.payload.authorization
              signature == header.payload.signature
          IN  {header.scheme, header.network, authorization.from,
               authorization.to, authorization.nonce, signature.signer,
               signature.message.from, signature.message.to,
               signature.message.nonce, signature.domain.verifyingContract}
          : n \in PaidRequests(i) }

\* The strings of the ActionResult invocation i returned.
ResultStrings(i) ==
  {inv[i].result.values, inv[i].paymentResult.error,
   inv[i].paymentResult.data}

\* The strings of the contents the callback has delivered to a room.
CallbackStrings(room) ==
  UNION { {messages[room][k].text, messages[room][k].detail}
          \cup messages[room][k].actions
          : k \in {n \in 1..Len(messages[room]) :
                     messages[room][n].sender = "agent"} }

\* C23: the value of the private key appears in no log record, no content
\* passed to the callback, no ActionResult and no request; the log and the
\* request are what they would be for an account that shows its address
\* only, and the signature names the key by the address it recovers to.
C23_KeyDoesNotLeak ==
  \A i \in Invocations :
    LET shown == [address |-> AddressOf(privateKey), key |-> ""]
    IN  /\ privateKey # "" =>
             /\ privateKey \notin LogStrings(i)
             /\ privateKey \notin RequestStrings(i)
             /\ privateKey \notin ResultStrings(i)
             /\ privateKey \notin CallbackStrings(inv[i].room)
        /\ Built(i) =>
             pipelineLog(privateKeyToAccount(privateKey), inv[i].message,
                         inv[i].signature)
               = pipelineLog(shown, inv[i].message, inv[i].signature)
        /\ Undamaged(i) =>
             inv[i].signature
               = signTypedData(shown, EIP3009_DOMAIN, inv[i].message)
        /\ \A n \in PaidRequests(i) :
             http[i][n].header
               = paymentPayload(shown, inv[i].message, inv[i].signature)

\* C23 witness: with the second key a payment was signed, logged and sent,
\* the server refused it, and the failure was logged, delivered to the room
\* and returned.
C23_Witness ==
  \E i \in Invocations :
    /\ privateKey = "0xKEY2"
    /\ inv[i].pc = "done"
    /\ PaidRequests(i) # {}
    /\ ~inv[i].paymentResult.success
    /\ inv[i].paymentResult.error = "errInsufficient"
    /\ inv[i].answer > 0
    /\ "0xPAYER2" \in LogStrings(i) \cap RequestStrings(i)

\* The value of the member of a JSON object that has the given key.
Member(object, key) ==
  object.v[CHOOSE k \in 1..Len(object.v) : object.v[k][1] = key][2]

\* C25: for every authorization that was signed and sent, decoding the value
\* of X-PAYMENT from base64 and parsing the JSON text gives the payload that
\* was encoded: the version, scheme and network, the signature and the six
\* fields of the authorization, which are those of the signed message.
C25_EncodeDecodeRoundTrip ==
  \A i \in Invocations :
    \A n \in PaidRequests(i) :
      LET decoded == decodePayment(paymentHeader(http[i][n]))
          payload == Member(decoded, <<"p","a","y","l","o","a","d">>)
          authorization == Member(payload, <<"a","u","t","h","o","r","i","z","a","t","i","o","n">>)
      IN  /\ decoded = jsonOf(http[i][n].header)
          /\ Member(decoded, <<"x","4","0","2","V","e","r","s","i","o","n">>) = JsonNumber(1)
          /\ Member(decoded, <<"s","c","h","e","m","e">>).v = <<"e","x","a","c","t">>
          /\ Member(decoded, <<"n","e","t","w","o","r","k">>).v = CharsOf("base-sepolia")
          /\ Member(payload, <<"s","i","g","n","a","t","u","r","e">>).v = signatureHex(inv[i].signature)
          /\ Member(authorization, <<"f","r","o","m">>).v = CharsOf(inv[i].message.from)
          /\ Member(authorization, <<"t","o">>).v = CharsOf(PAYEE_ADDRESS)
          /\ parseDecimal(Member(authorization, <<"v","a","l","u","e">>).v)
               = inv[i].message.value
          /\ parseDecimal(Member(authorization, <<"v","a","l","i","d","A","f","t","e","r">>).v)
               = inv[i].message.validAfter
          /\ parseDecimal(Member(authorization, <<"v","a","l","i","d","B","e","f","o","r","e">>).v)
               = inv[i].message.validBefore
          /\ Member(authorization, <<"n","o","n","c","e">>).v = CharsOf(inv[i].message.nonce)

\* C25 witness: a header was sent for the second key, the second nonce and
\* a window taken from two readings of the clock; it is base64 text of whole
\* groups that begins with the encoding of an opening brace and a quote.
C25_Witness ==
  \E i \in Invocations :
    \E n \in PaidRequests(i) :
      /\ privateKey = "0xKEY2"
      /\ inv[i].message.nonce = "nonce2"
      /\ inv[i].message.validBefore - inv[i].message.validAfter = 4201
      /\ Len(paymentHeader(http[i][n])) % 4 = 0
      /\ SubSeq(<<>> \o paymentHeader(http[i][n]), 1, 3) = <<"e", "y", "J">>

\* The messages of the agent in a room.
AgentMessages(room) ==
  {k \in 1..Len(messages[room]) : messages[room][k].sender = "agent"}

\* C31: an invocation of the handler calls the callback at most once, and
\* exactly once when no step of it threw, with content labelled
\* WEATHER_REPORT: a room gains one message of the agent at a time, as the
\* one answer of an invocation that returns with it, and an invocation that
\* returned without an exception has its answer in the room.
C31_OneResponse ==
  /\ [][\A r \in DOMAIN messages :
          AgentMessages(r)' # AgentMessages(r) =>
            /\ Len(messages'[r]) = Len(messages[r]) + 1
            /\ \E i \in Invocations :
                 /\ inv[i].room = r
                 /\ inv[i].pc # "done"
                 /\ inv[i].callbacks = 0
                 /\ inv'[i].callbacks = 1
                 /\ inv'[i].pc = "done"
                 /\ inv'[i].answer = Len(messages'[r])
                 /\ messages'[r][inv'[i].answer].actions = {"WEATHER_REPORT"}]_vars
  /\ [](\A i \in Invocations :
          /\ inv[i].callbacks <= 1
          /\ inv[i].pc # "done" => inv[i].callbacks = 0
          /\ (inv[i].pc = "done" /\ ~CallbackThrew(i)) =>
               /\ inv[i].callbacks = 1
               /\ inv[i].answer \in AgentMessages(inv[i].room)
               /\ "WEATHER_REPORT"
                    \in messages[inv[i].room][inv[i].answer].actions
          /\ \A j \in Invocations :
               (i # j /\ inv[i].room = inv[j].room /\ inv[i].answer > 0)
                 => inv[i].answer # inv[j].answer)

\* C31 witness: two invocations returned in one room, one after a paid
\* report and one after the prompt, each with its one labelled answer.
C31_Witness ==
  \E i, j \in Invocations :
    /\ i # j
    /\ inv[i].pc = "done" /\ inv[j].pc = "done"
    /\ inv[i].result.values = "paymentApproved"
    /\ inv[j].result.values = "paymentPrompted"
    /\ inv[i].callbacks = 1 /\ inv[j].callbacks = 1
    /\ inv[i].answer # inv[j].answer
    /\ Cardinality(AgentMessages(inv[i].room)) = 3

\* C32: validate is read-only: the step in which it returns for an
\* invocation leaves the messages of every room, the requests and the key
\* as they are, changes nothing of the invocation but the boolean it
\* returns (and the position of the run), and has read the last messages of
\* the room once at most; until the handler runs, the invocation has no
\* authorization, no signature, no request and no answer.
C32_ValidateReadOnly ==
  /\ [][\A i \in Invocations :
          (inv[i].pc = "validate" /\ inv'[i].pc # "validate") =>
            /\ messages' = messages
            /\ http' = http
            /\ privateKey' = privateKey
            /\ inv'[i].valid \in BOOLEAN
            /\ inv'[i].lookbacks \in {0, 1}
            /\ inv'[i].lookbacks = 0 => ~inv'[i].threw
            /\ inv' = [inv EXCEPT ![i].pc = inv'[i].pc,
                                  ![i].valid = inv'[i].valid,
                                  ![i].threw = inv'[i].threw,
                                  ![i].lookbacks = inv'[i].lookbacks]
            /\ inv'[i].pc \in {"handler", "wallet", "skipped"}
            /\ inv'[i].pc = "handler" <=> inv'[i].valid]_vars
  /\ [](\A i \in Invocations :
          /\ inv[i].lookbacks <= 1
          /\ inv[i].pc \in {"validate", "handler", "wallet", "skipped"} =>
               /\ ~Built(i)
               /\ ~Signed(i)
               /\ http[i] = <<>>
               /\ inv[i].callbacks = 0
               /\ inv[i].answer = 0
               /\ inv[i].result = NoResult)

\* C32 witness: validate has returned true for an approval and false for
\* another, each after one reading of the room, and neither invocation has
\* left a trace: the room holds what the users and earlier answers put
\* there.
C32_Witness ==
  \E i, j \in Invocations :
    /\ ApprovalSignal(i) /\ ApprovalSignal(j)
    /\ inv[i].pc = "handler" /\ inv[i].valid
    /\ inv[j].pc \in {"skipped", "wallet"} /\ ~inv[j].valid /\ inv[j].threw
    /\ inv[i].lookbacks = 1 /\ inv[j].lookbacks = 1
    /\ http[i] = <<>> /\ http[j] = <<>>
    /\ \A k \in AgentMessages(inv[i].room) : k < inv[i].at

\* The text of invocation i carries neither an approval nor a rejection
\* keyword.
NeitherSignal(i) == ~ApprovalSignal(i) /\ ~RejectionSignal(i)

\* C33: for a message with no approval and no rejection keyword validate
\* returns true exactly when the message has a weather keyword, without
\* reading the conversation history; a message with none of the three kinds
\* of keyword is refused and the handler of WEATHER_REPORT never runs for it.
C33_UnrelatedNotClaimed ==
  \A i \in Invocations :
    (NeitherSignal(i) /\ Validated(i)) =>
      /\ inv[i].valid = WeatherSignal(i)
      /\ inv[i].lookbacks = 0
      /\ ~inv[i].threw
      /\ ~WeatherSignal(i) =>
           /\ ~inv[i].valid
           /\ inv[i].pc \notin {"handler", "approval", "signing", "verifying",
                                "fetchPaid", "fetchUnpaid"}
           /\ ~Built(i)
           /\ http[i] = <<>>
           /\ inv[i].answer > 0 =>
                "WEATHER_REPORT"
                  \notin messages[inv[i].room][inv[i].answer].actions

\* C33 witness: in a room that holds the prompt a greeting was refused, and
\* a weather request with no other keyword was accepted as the first message
\* of an empty room.
C33_Witness ==
  \E i, j \in Invocations :
    /\ inv[i].text = "textHello"
    /\ NeitherSignal(i) /\ ~WeatherSignal(i)
    /\ Validated(i) /\ ~inv[i].valid
    /\ \E k \in 1..(inv[i].at - 1) : IsPrompt(inv[i].room, k)
    /\ NeitherSignal(j) /\ WeatherSignal(j)
    /\ Validated(j) /\ inv[j].valid

============================================================================
